---- MODULE Spec2Model ----
(***************************************************************************)
(* State-machine model of the capital_reallocator program                  *)
(* (src/capstone/capital_reallocator/programs/capital_reallocator/src).    *)
(*                                                                         *)
(* One action per instruction.  An instruction is an Anchor entry point:   *)
(* first the account constraints of its #[derive(Accounts)] struct, then   *)
(* the handler.  Every handler is an operator that returns the error it    *)
(* ends with and the accounts as it leaves them; the action commits them   *)
(* only when the handler returns Ok (the host runtime discards every       *)
(* account write of a failed instruction).                                 *)
(*                                                                         *)
(* Integers: u64 is modelled by the 30-bit word 0..U64Max, with the same   *)
(* checked / saturating operations as the source.  The u128 intermediates  *)
(* of the fee and percentage computations hold the product of a u64 by a   *)
(* u16 or u8 exactly, and are modelled by exact integers.                  *)
(***************************************************************************)
EXTENDS Integers, Sequences, FiniteSets, TLC

(***************************************************************************)
(* Word size and checked arithmetic                                        *)
(***************************************************************************)
U64Max == 2^30 - 1

\* Option::None of a checked operation
None == -1

checked_add(a, b) == IF a > U64Max - b THEN None ELSE a + b

checked_sub(a, b) == IF b > a THEN None ELSE a - b

checked_mul(a, b) == IF a # 0 /\ b > U64Max \div a THEN None ELSE a * b

checked_div(a, b) == IF b = 0 THEN None ELSE a \div b

saturating_sub(a, b) == IF b > a THEN 0 ELSE a - b

saturating_add(a, b) == IF a > U64Max - b THEN U64Max ELSE a + b

Min(a, b) == IF a < b THEN a ELSE b

\* (a as u128).checked_mul(b as u128)?.checked_div(d)? as u64, for d > 0:
\* floor(a * b / d), computed without leaving the range of the a * b / d <= U64Max
\* cases the model draws (b <= d, or a small), then truncated to the word.
mul_div_u128(a, b, d) ==
    (((a \div d) * b) + (((a % d) * b) \div d)) % (U64Max + 1)

(***************************************************************************)
(* Program constants                                                       *)
(***************************************************************************)
MAX_FEE_BPS == 1000
REBALANCE_THRESHOLD_BPS == 100
MIN_SLOTS_BETWEEN_REBALANCES == 25
PRICE_MAX_AGE == 60
BPS_DENOMINATOR == 10000
PERCENT_DENOMINATOR == 100
USD_DECIMALS == 6
TOKEN_B_DECIMALS == 9

(***************************************************************************)
(* Bounds of the model                                                     *)
(***************************************************************************)
\* position ids a caller may pass to create_position: 1..MaxPositionId
MaxPositionId == 3
\* instructions submitted in one behaviour of the ledger specification
MaxLedgerSteps == 6
\* instructions submitted in one behaviour of the funds specification
MaxFundSteps == 4
\* last slot the clock reaches
MaxSlot == 60

Users == {"u1", "u2"}
PosIds == 1..MaxPositionId
PosKeys == Users \X PosIds
FeeRecipients == {"r1", "r2"}

(***************************************************************************)
(* Accounts                                                                *)
(***************************************************************************)
\* ProtocolAuthority before initialize_protocol has created it
NoProtocol ==
    [exists |-> FALSE, fee_recipient |-> "", protocol_fee_bps |-> 0, total_positions |-> 0]

\* UserMainAccount before initialize_user has created it
NoUser == [exists |-> FALSE, position_count |-> 0, total_positions_created |-> 0]

\* a Position account created with rebalancing paused
NewPosition_paused(lp_range_min, lp_range_max) ==
    [exists |-> TRUE,
     token_a_vault_balance |-> 0, token_b_vault_balance |-> 0,
     token_a_in_lp |-> 0, token_b_in_lp |-> 0,
     token_a_in_lending |-> 0, token_b_in_lending |-> 0,
     lp_range_min |-> lp_range_min, lp_range_max |-> lp_range_max,
     pause_flag |-> TRUE,
     last_rebalance_price |-> 0, last_rebalance_slot |-> 0, total_rebalances |-> 0,
     meteora_position |-> FALSE, kamino_obligation |-> FALSE]

\* the Position account written by init_position (set_inner)
NewPosition(lp_range_min, lp_range_max) ==
    [exists |-> TRUE,
     token_a_vault_balance |-> 0, token_b_vault_balance |-> 0,
     token_a_in_lp |-> 0, token_b_in_lp |-> 0,
     token_a_in_lending |-> 0, token_b_in_lending |-> 0,
     lp_range_min |-> lp_range_min, lp_range_max |-> lp_range_max,
     pause_flag |-> FALSE,
     last_rebalance_price |-> 0, last_rebalance_slot |-> 0, total_rebalances |-> 0,
     meteora_position |-> FALSE, kamino_obligation |-> FALSE]

\* a Position address that holds no account
NoPosition == [NewPosition(0, 0) EXCEPT !.exists = FALSE]

\* token amounts physically held for a position: its two vault token accounts,
\* and what the LP venue and the lending venue hold for it
NoTokens == [vault_a |-> 0, vault_b |-> 0, lp_a |-> 0, lp_b |-> 0, lend_a |-> 0, lend_b |-> 0]

\* net token movement of an instruction, per token account
NoFlows == [user_a |-> 0, user_b |-> 0, vault_a |-> 0, vault_b |-> 0, fee_a |-> 0, fee_b |-> 0]

\* fields of the emitted event (DepositEvent, WithdrawEvent, RebalanceEvent, PositionStatusEvent)
NoEvent ==
    [kind |-> "", action |-> "", in_range |-> FALSE, current_price |-> 0,
     amount_a |-> 0, amount_b |-> 0, fee_a |-> 0, fee_b |-> 0, percentage |-> 0,
     has_lp |-> FALSE, has_lending |-> FALSE]

\* instruction arguments and supplied accounts, as recorded with the outcome
NoArgs ==
    [position_id |-> 0, lp_range_min |-> 0, lp_range_max |-> 0, fee_bps |-> 0,
     amount_a |-> 0, amount_b |-> 0, percentage |-> 0,
     price |-> 0, conf |-> 0, exponent |-> 0, age |-> 0,
     meteora_accounts |-> FALSE, kamino_accounts |-> FALSE,
     meteora_cpi_ok |-> FALSE, kamino_cpi_ok |-> FALSE]

VARIABLES
    protocol,   \* the ProtocolAuthority account
    users,      \* the UserMainAccount of each user
    positions,  \* the Position account at each (owner, position_id) address
    tokens,     \* token amounts held for each position (vaults and venues)
    slot,       \* Clock::get()?.slot
    steps,      \* instructions submitted so far
    last        \* the last instruction: its arguments, the accounts before it, its outcome

vars == <<protocol, users, positions, tokens, slot, steps, last>>

NoLast ==
    [op |-> "", owner |-> "", id |-> 0, err |-> "", args |-> NoArgs,
     pre |-> NoPosition, pre_user |-> NoUser, pre_protocol |-> NoProtocol,
     pre_tokens |-> NoTokens, pre_slot |-> 0,
     flows |-> NoFlows, event |-> NoEvent]

\* the record of an instruction on position (owner, id), before its outcome is filled in
Submitted(op, owner, id, args) ==
    [NoLast EXCEPT !.op = op, !.owner = owner, !.id = id, !.args = args,
                   !.pre = IF id \in PosIds THEN positions[<<owner, id>>] ELSE NoPosition,
                   !.pre_user = IF owner \in Users THEN users[owner] ELSE NoUser,
                   !.pre_protocol = protocol,
                   !.pre_tokens = IF id \in PosIds THEN tokens[<<owner, id>>] ELSE NoTokens,
                   !.pre_slot = slot]

(***************************************************************************)
(* The host runtime: an instruction that returns Err leaves no account     *)
(* write behind; one that returns Ok leaves them all.                      *)
(***************************************************************************)
\* a host that keeps the writes of a failed instruction
Commit_keeps_failed_writes(err, written, before) == written

Commit(err, written, before) == IF err = "OK" THEN written ELSE before

(***************************************************************************)
(* initialize_protocol, initialize_user (instructions/initialize.rs)       *)
(***************************************************************************)
\* the fee check against the denominator of basis points
valid_fee_bps_up_to_denominator(fee_bps) == fee_bps <= BPS_DENOMINATOR

\* require!(fee_bps <= MAX_FEE_BPS, InvalidPercentage)
valid_fee_bps(fee_bps) == fee_bps <= MAX_FEE_BPS

\* InitializeProtocol::init_protocol; the account is init_if_needed, so the
\* handler runs whether or not the account already exists
init_protocol(fee_recipient, fee_bps) ==
    IF ~valid_fee_bps(fee_bps)
    THEN [err |-> "InvalidPercentage", protocol |-> protocol]
    ELSE [err |-> "OK",
          protocol |-> [exists |-> TRUE, fee_recipient |-> fee_recipient,
                        protocol_fee_bps |-> fee_bps, total_positions |-> 0]]

\* InitializeUser::init_user; init_if_needed as well
init_user(owner) ==
    [err |-> "OK",
     user |-> [exists |-> TRUE, position_count |-> 0, total_positions_created |-> 0]]

(***************************************************************************)
(* create_position                                                         *)
(***************************************************************************)
\* the account constraints of CreatePosition: position is `init` (the address
\* must hold no account), user_main_account and protocol_authority are
\* Account<..> (they must exist)
create_position_accounts(owner, position_id) ==
    IF positions[<<owner, position_id>>].exists THEN "AccountAlreadyInUse"
    ELSE IF ~users[owner].exists THEN "AccountNotInitialized"
    ELSE IF ~protocol.exists THEN "AccountNotInitialized"
    ELSE "OK"

\* field += 1 on a u64 (overflow checks on)
increment(n) == IF n = U64Max THEN None ELSE n + 1

\* the range check written with <=
valid_price_range_inclusive(lp_range_min, lp_range_max) == lp_range_min <= lp_range_max

\* require!(lp_range_min < lp_range_max, InvalidPriceRange)
valid_price_range(lp_range_min, lp_range_max) == lp_range_min < lp_range_max

\* the id check accepting any id not yet handed out
valid_position_id_any_unused(position_id, total_positions_created) ==
    position_id > total_positions_created

\* require!(position_id == total_positions_created + 1, InvalidPositionId)
valid_position_id(position_id, total_positions_created) ==
    position_id = total_positions_created + 1

\* CreatePosition::init_position
init_position(owner, position_id, lp_range_min, lp_range_max) ==
    LET user == users[owner]
        unchanged == [position |-> positions[<<owner, position_id>>],
                      user |-> user, protocol |-> protocol]
        count == increment(user.position_count)
        created == increment(user.total_positions_created)
        total == increment(protocol.total_positions)
    IN  IF ~valid_price_range(lp_range_min, lp_range_max)
        THEN unchanged @@ [err |-> "InvalidPriceRange"]
        ELSE IF ~valid_position_id(position_id, user.total_positions_created)
        THEN unchanged @@ [err |-> "InvalidPositionId"]
        ELSE IF count = None \/ created = None \/ total = None
        THEN unchanged @@ [err |-> "Panic"]
        ELSE [err |-> "OK",
              position |-> NewPosition(lp_range_min, lp_range_max),
              user |-> [user EXCEPT !.position_count = count,
                                    !.total_positions_created = created],
              protocol |-> [protocol EXCEPT !.total_positions = total]]

\* the create_position instruction: account constraints, then the handler
create_position(owner, position_id, lp_range_min, lp_range_max) ==
    LET acc == create_position_accounts(owner, position_id)
    IN  IF acc # "OK"
        THEN [err |-> acc, position |-> positions[<<owner, position_id>>],
              user |-> users[owner], protocol |-> protocol]
        ELSE init_position(owner, position_id, lp_range_min, lp_range_max)

(***************************************************************************)
(* deposit_to_position                                                     *)
(***************************************************************************)
\* the fee taken as a per-mille rate
compute_fee_per_mille(amount, fee_bps) == mul_div_u128(amount, fee_bps, 1000)

\* the fee of the deposit and withdraw handlers:
\* (amount as u128).checked_mul(protocol_fee_bps as u128)?.checked_div(10_000)? as u64
compute_fee(amount, fee_bps) == mul_div_u128(amount, fee_bps, BPS_DENOMINATOR)

\* the fee computed without widening the product to 128 bits
fee_and_net_narrow(amount, fee_bps) ==
    LET product == checked_mul(amount, fee_bps)
    IN  IF product = None THEN [err |-> "MathOverflow", fee |-> 0, net |-> 0]
        ELSE [err |-> "OK", fee |-> product \div BPS_DENOMINATOR,
              net |-> amount - product \div BPS_DENOMINATOR]

\* the fee and the net amount of the deposit and withdraw handlers:
\* net = amount.checked_sub(fee).ok_or(MathOverflow)?
fee_and_net(amount, fee_bps) ==
    LET fee == compute_fee(amount, fee_bps)
        net == checked_sub(amount, fee)
    IN  [err |-> IF net = None THEN "MathOverflow" ELSE "OK", fee |-> fee, net |-> net]

\* account constraints shared by the instructions on an existing position that
\* also read the ProtocolAuthority (DepositToPosition, WithdrawFromPosition)
position_and_protocol_accounts(owner, id) ==
    IF ~positions[<<owner, id>>].exists THEN "AccountNotInitialized"
    ELSE IF ~protocol.exists THEN "AccountNotInitialized"
    ELSE "OK"

\* one token of DepositToPosition::deposit (the `if amount > 0 { .. }` block):
\* the token program moves `net` to the vault and `fee` to the fee account,
\* then the idle balance is credited.  user_covers: the user's token account
\* holds at least `amount`.
deposit_token(idle, vault, amount, net, fee, user_covers) ==
    IF amount = 0 THEN [err |-> "OK", idle |-> idle, vault |-> vault, moved |-> FALSE]
    ELSE IF ~user_covers \/ checked_add(vault, net) = None
    THEN [err |-> "TokenProgramError", idle |-> idle, vault |-> vault, moved |-> FALSE]
    ELSE IF checked_add(idle, net) = None
    THEN [err |-> "MathOverflow", idle |-> idle, vault |-> vault + net, moved |-> TRUE]
    ELSE [err |-> "OK", idle |-> idle + net, vault |-> vault + net, moved |-> TRUE]

\* DepositToPosition::deposit
deposit(owner, id, amount_a, amount_b, user_covers) ==
    LET pos == positions[<<owner, id>>]
        tok == tokens[<<owner, id>>]
        fa == fee_and_net(amount_a, protocol.protocol_fee_bps)
        fb == fee_and_net(amount_b, protocol.protocol_fee_bps)
        fee_a == fa.fee
        fee_b == fb.fee
        deposit_a == fa.net
        deposit_b == fb.net
        ta == deposit_token(pos.token_a_vault_balance, tok.vault_a, amount_a, deposit_a, fee_a,
                            user_covers)
        pos_a == [pos EXCEPT !.token_a_vault_balance = ta.idle]
        tok_a == [tok EXCEPT !.vault_a = ta.vault]
        flows_a == IF ta.moved
                   THEN [NoFlows EXCEPT !.user_a = 0 - amount_a, !.vault_a = deposit_a,
                                        !.fee_a = fee_a]
                   ELSE NoFlows
        tb == deposit_token(pos.token_b_vault_balance, tok.vault_b, amount_b, deposit_b, fee_b,
                            user_covers)
        flows_b == IF tb.moved
                   THEN [flows_a EXCEPT !.user_b = 0 - amount_b, !.vault_b = deposit_b,
                                        !.fee_b = fee_b]
                   ELSE flows_a
    IN  IF fa.err # "OK" \/ fb.err # "OK"
        THEN [err |-> "MathOverflow", position |-> pos, tokens |-> tok, flows |-> NoFlows,
              event |-> NoEvent]
        ELSE IF ta.err # "OK"
        THEN [err |-> ta.err, position |-> pos_a, tokens |-> tok_a, flows |-> flows_a,
              event |-> NoEvent]
        ELSE [err |-> tb.err,
              position |-> [pos_a EXCEPT !.token_b_vault_balance = tb.idle],
              tokens |-> [tok_a EXCEPT !.vault_b = tb.vault],
              flows |-> flows_b,
              event |-> IF tb.err = "OK"
                        THEN [NoEvent EXCEPT !.kind = "DepositEvent",
                                             !.amount_a = deposit_a, !.amount_b = deposit_b,
                                             !.fee_a = fee_a, !.fee_b = fee_b]
                        ELSE NoEvent]

\* the deposit_to_position instruction
deposit_to_position(owner, id, amount_a, amount_b, user_covers) ==
    LET acc == position_and_protocol_accounts(owner, id)
    IN  IF acc # "OK"
        THEN [err |-> acc, position |-> positions[<<owner, id>>],
              tokens |-> tokens[<<owner, id>>], flows |-> NoFlows, event |-> NoEvent]
        ELSE deposit(owner, id, amount_a, amount_b, user_covers)

(***************************************************************************)
(* pause_position, resume_position                                         *)
(***************************************************************************)
\* the flag flipped instead of set
pause_toggling(pos) == [pos EXCEPT !.pause_flag = ~@]

\* ModifyPosition::pause
pause(pos) == [pos EXCEPT !.pause_flag = TRUE]

\* ModifyPosition::resume
resume(pos) == [pos EXCEPT !.pause_flag = FALSE]

\* the account constraint of the instructions that take only the position
position_account(owner, id) ==
    IF ~positions[<<owner, id>>].exists THEN "AccountNotInitialized" ELSE "OK"

(***************************************************************************)
(* withdraw_from_position, close_position (instructions/withdraw.rs)       *)
(***************************************************************************)
\* the total of a token taken without its lending balance
checked_add3_without_lending(a, b, c) == checked_add(a, b)

\* a.checked_add(b)?.checked_add(c)?
checked_add3(a, b, c) ==
    IF checked_add(a, b) = None THEN None ELSE checked_add(checked_add(a, b), c)

\* the share rounded up
percent_of_rounding_up(x, pct) ==
    mul_div_u128(x, pct, PERCENT_DENOMINATOR)
        + (IF ((x % PERCENT_DENOMINATOR) * pct) % PERCENT_DENOMINATOR = 0 THEN 0 ELSE 1)

\* (x as u128).checked_mul(pct as u128)?.checked_div(100)? as u64
percent_of(x, pct) == mul_div_u128(x, pct, PERCENT_DENOMINATOR)

\* the ledger update that subtracts the withdrawn share of each bucket
scale_buckets_subtracting(pos, withdraw_percentage) ==
    [pos EXCEPT
       !.token_a_in_lp = @ - percent_of(@, withdraw_percentage),
       !.token_b_in_lp = @ - percent_of(@, withdraw_percentage),
       !.token_a_in_lending = @ - percent_of(@, withdraw_percentage),
       !.token_b_in_lending = @ - percent_of(@, withdraw_percentage),
       !.token_a_vault_balance = @ - percent_of(@, withdraw_percentage),
       !.token_b_vault_balance = @ - percent_of(@, withdraw_percentage)]

\* the ledger update of a withdrawal: everything cleared at 100, each bucket
\* scaled by the remaining percentage otherwise
scale_buckets(pos, withdraw_percentage) ==
    IF withdraw_percentage = 100
    THEN [pos EXCEPT !.token_a_in_lp = 0, !.token_b_in_lp = 0,
                     !.token_a_in_lending = 0, !.token_b_in_lending = 0,
                     !.token_a_vault_balance = 0, !.token_b_vault_balance = 0]
    ELSE LET remaining_percentage == saturating_sub(100, withdraw_percentage)
         IN  [pos EXCEPT
                !.token_a_in_lp = percent_of(@, remaining_percentage),
                !.token_b_in_lp = percent_of(@, remaining_percentage),
                !.token_a_in_lending = percent_of(@, remaining_percentage),
                !.token_b_in_lending = percent_of(@, remaining_percentage),
                !.token_a_vault_balance = percent_of(@, remaining_percentage),
                !.token_b_vault_balance = percent_of(@, remaining_percentage)]

\* the payout of the computed amounts, whatever the vault holds
vault_payout_unclamped(withdraw_x, fee_x, vault_amount) ==
    IF withdraw_x > 0
    THEN [net |-> withdraw_x - fee_x, fee |-> fee_x]
    ELSE [net |-> 0, fee |-> 0]

\* the tokens one vault pays out: [net to the user, fee to the fee account]
vault_payout(withdraw_x, fee_x, vault_amount) ==
    LET actual_withdraw == Min(withdraw_x, vault_amount)
        actual_net == saturating_sub(actual_withdraw, Min(fee_x, actual_withdraw))
        actual_fee == saturating_sub(actual_withdraw, actual_net)
    IN  IF actual_withdraw > 0
        THEN [net |-> actual_net, fee |-> actual_fee]
        ELSE [net |-> 0, fee |-> 0]

\* the percentage check without its lower bound
valid_percentage_at_most_100(withdraw_percentage) == withdraw_percentage <= 100

\* require!(withdraw_percentage > 0 && withdraw_percentage <= 100, InvalidPercentage)
valid_percentage(withdraw_percentage) ==
    withdraw_percentage > 0 /\ withdraw_percentage <= 100

\* WithdrawFromPosition::withdraw
withdraw(owner, id, withdraw_percentage) ==
    LET pos == positions[<<owner, id>>]
        tok == tokens[<<owner, id>>]
        failed(e) == [err |-> e, position |-> pos, tokens |-> tok, flows |-> NoFlows,
                      event |-> NoEvent]
        total_a == checked_add3(pos.token_a_vault_balance, pos.token_a_in_lp,
                                pos.token_a_in_lending)
        total_b == checked_add3(pos.token_b_vault_balance, pos.token_b_in_lp,
                                pos.token_b_in_lending)
        withdraw_a == percent_of(total_a, withdraw_percentage)
        withdraw_b == percent_of(total_b, withdraw_percentage)
        fa == fee_and_net(withdraw_a, protocol.protocol_fee_bps)
        fb == fee_and_net(withdraw_b, protocol.protocol_fee_bps)
        fee_a == fa.fee
        fee_b == fb.fee
        net_withdraw_a == fa.net
        net_withdraw_b == fb.net
        pay_a == vault_payout(withdraw_a, fee_a, tok.vault_a)
        pay_b == vault_payout(withdraw_b, fee_b, tok.vault_b)
    IN  IF ~valid_percentage(withdraw_percentage) THEN failed("InvalidPercentage")
        ELSE IF total_a = None \/ total_b = None THEN failed("MathOverflow")
        ELSE IF fa.err # "OK" \/ fb.err # "OK" THEN failed("MathOverflow")
        ELSE [err |-> "OK",
              position |-> scale_buckets(pos, withdraw_percentage),
              tokens |-> [tok EXCEPT !.vault_a = @ - (pay_a.net + pay_a.fee),
                                     !.vault_b = @ - (pay_b.net + pay_b.fee)],
              flows |-> [NoFlows EXCEPT !.user_a = pay_a.net, !.fee_a = pay_a.fee,
                                        !.vault_a = 0 - (pay_a.net + pay_a.fee),
                                        !.user_b = pay_b.net, !.fee_b = pay_b.fee,
                                        !.vault_b = 0 - (pay_b.net + pay_b.fee)],
              event |-> [NoEvent EXCEPT !.kind = "WithdrawEvent",
                                        !.amount_a = net_withdraw_a,
                                        !.amount_b = net_withdraw_b,
                                        !.fee_a = fee_a, !.fee_b = fee_b,
                                        !.percentage = withdraw_percentage]]

\* the withdraw_from_position instruction
withdraw_from_position(owner, id, withdraw_percentage) ==
    LET acc == position_and_protocol_accounts(owner, id)
    IN  IF acc # "OK"
        THEN [err |-> acc, position |-> positions[<<owner, id>>],
              tokens |-> tokens[<<owner, id>>], flows |-> NoFlows, event |-> NoEvent]
        ELSE withdraw(owner, id, withdraw_percentage)

\* the account constraints of ClosePosition
close_position_accounts(owner, id) ==
    IF ~positions[<<owner, id>>].exists THEN "AccountNotInitialized"
    ELSE IF ~users[owner].exists THEN "AccountNotInitialized"
    ELSE IF ~protocol.exists THEN "AccountNotInitialized"
    ELSE "OK"

\* the emptiness check that looks at the idle balances only
position_empty_idle_only(pos) ==
    pos.token_a_vault_balance = 0 /\ pos.token_b_vault_balance = 0

\* require!(all six balances == 0, PositionNotEmpty)
position_empty(pos) ==
    /\ pos.token_a_vault_balance = 0 /\ pos.token_b_vault_balance = 0
    /\ pos.token_a_in_lp = 0 /\ pos.token_b_in_lp = 0
    /\ pos.token_a_in_lending = 0 /\ pos.token_b_in_lending = 0

\* ClosePosition::close, and the `close = owner` of the position account on exit.
\* The token program closes a token account only when it holds no tokens.
close(owner, id) ==
    LET pos == positions[<<owner, id>>]
        tok == tokens[<<owner, id>>]
        user == users[owner]
        unchanged == [position |-> pos, user |-> user, protocol |-> protocol]
    IN  IF ~position_empty(pos)
        THEN unchanged @@ [err |-> "PositionNotEmpty"]
        ELSE IF tok.vault_a # 0 \/ tok.vault_b # 0
        THEN unchanged @@ [err |-> "TokenProgramError"]
        ELSE [err |-> "OK",
              position |-> NoPosition,
              user |-> [user EXCEPT !.position_count = saturating_sub(@, 1)],
              protocol |-> [protocol EXCEPT !.total_positions = saturating_sub(@, 1)]]

\* the close_position instruction
close_position(owner, id) ==
    LET acc == close_position_accounts(owner, id)
    IN  IF acc # "OK"
        THEN [err |-> acc, position |-> positions[<<owner, id>>],
              user |-> users[owner], protocol |-> protocol]
        ELSE close(owner, id)

(***************************************************************************)
(* Oracle price (instructions/rebalance.rs)                                *)
(***************************************************************************)
\* 10u64.pow(k); None when the power does not fit the word
pow10(k) == IF k > 9 THEN None ELSE 10^k

\* (-exponent) as u8
as_u8(n) == n % 256

\* normalize_pyth_price: [err, value]
normalize_pyth_price(price, exponent, target_decimals) ==
    LET pyth_decimals == as_u8(0 - exponent)
    IN  IF price <= 0 THEN [err |-> "StalePriceData", value |-> 0]
        ELSE IF pyth_decimals > target_decimals
        THEN LET divisor == pow10(pyth_decimals - target_decimals)
             IN  IF divisor = None THEN [err |-> "Panic", value |-> 0]
                 ELSE [err |-> "OK", value |-> price \div divisor]
        ELSE IF pyth_decimals < target_decimals
        THEN LET multiplier == pow10(target_decimals - pyth_decimals)
             IN  IF checked_mul(price, multiplier) = None
                 THEN [err |-> "MathOverflow", value |-> 0]
                 ELSE [err |-> "OK", value |-> price * multiplier]
        ELSE [err |-> "OK", value |-> price]

\* the classification taken from the point price, the confidence ignored
classify_point_price(current_price, confidence, lp_range_min, lp_range_max) ==
    IF current_price >= lp_range_min /\ current_price <= lp_range_max
    THEN "DefinitelyIn"
    ELSE "DefinitelyOut"

\* the lower bound by wrapping subtraction
price_lower_wrapping(current_price, confidence) ==
    (current_price - confidence + U64Max + 1) % (U64Max + 1)

\* let price_lower = current_price.saturating_sub(confidence)
price_lower(current_price, confidence) == saturating_sub(current_price, confidence)

\* let price_upper = current_price.saturating_add(confidence)
price_upper(current_price, confidence) == saturating_add(current_price, confidence)

\* the bounds of the range excluded
definitely_in_range_strict(lower, upper, lp_range_min, lp_range_max) ==
    lower > lp_range_min /\ upper < lp_range_max

\* let definitely_in_range = price_lower >= lp_range_min && price_upper <= lp_range_max
definitely_in_range(lower, upper, lp_range_min, lp_range_max) ==
    lower >= lp_range_min /\ upper <= lp_range_max

\* let definitely_out_of_range = price_upper < lp_range_min || price_lower > lp_range_max
definitely_out_of_range(lower, upper, lp_range_min, lp_range_max) ==
    upper < lp_range_min \/ lower > lp_range_max

\* the branches of rebalance() on the two flags: neither is the uncertain
\* zone, otherwise in_range = definitely_in_range
class_of(in_range, out_of_range) ==
    IF ~in_range /\ ~out_of_range THEN "Ambiguous"
    ELSE IF in_range THEN "DefinitelyIn"
    ELSE "DefinitelyOut"

\* the three-way classification of rebalance(): the confidence interval against the range
classify(current_price, confidence, lp_range_min, lp_range_max) ==
    LET lower == price_lower(current_price, confidence)
        upper == price_upper(current_price, confidence)
    IN  class_of(definitely_in_range(lower, upper, lp_range_min, lp_range_max),
                 definitely_out_of_range(lower, upper, lp_range_min, lp_range_max))

has_lp(pos) == pos.token_a_in_lp > 0 \/ pos.token_b_in_lp > 0

has_lending(pos) == pos.token_a_in_lending > 0 \/ pos.token_b_in_lending > 0

has_idle(pos) == pos.token_a_vault_balance > 0 \/ pos.token_b_vault_balance > 0

\* the cooldown one slot short
in_cooldown_one_short(slots_since_rebalance) ==
    slots_since_rebalance < MIN_SLOTS_BETWEEN_REBALANCES - 1

\* if slots_since_rebalance < MIN_SLOTS_BETWEEN_REBALANCES { return Ok(false) }
in_cooldown(slots_since_rebalance) ==
    slots_since_rebalance < MIN_SLOTS_BETWEEN_REBALANCES

\* the movement threshold never holding a rebalance back
below_threshold_never(price_change_bps) == FALSE

\* if price_change_bps < REBALANCE_THRESHOLD_BPS as u64 { return Ok(false) }
below_threshold(price_change_bps) == price_change_bps < REBALANCE_THRESHOLD_BPS

\* the gate that leaves idle funds out
needs_rebalance_ignoring_idle(pos, in_range) ==
    (in_range /\ has_lending(pos)) \/ (~in_range /\ has_lp(pos))

\* let needs_rebalance = (in_range && has_lending) || (!in_range && has_lp) || has_idle
needs_rebalance(pos, in_range) ==
    (in_range /\ has_lending(pos)) \/ (~in_range /\ has_lp(pos)) \/ has_idle(pos)

\* RebalancePosition::should_rebalance: [err, go]
should_rebalance(pos, current_slot, current_price, in_range) ==
    LET slots_since_rebalance == saturating_sub(current_slot, pos.last_rebalance_slot)
        price_change == IF current_price > pos.last_rebalance_price
                        THEN current_price - pos.last_rebalance_price
                        ELSE pos.last_rebalance_price - current_price
        scaled == checked_mul(price_change, BPS_DENOMINATOR)
        price_change_bps == scaled \div pos.last_rebalance_price
    IN  IF in_cooldown(slots_since_rebalance)
        THEN [err |-> "OK", go |-> FALSE]
        ELSE IF pos.last_rebalance_price > 0 /\ scaled = None
        THEN [err |-> "MathOverflow", go |-> FALSE]
        ELSE IF pos.last_rebalance_price > 0 /\ below_threshold(price_change_bps)
        THEN [err |-> "OK", go |-> FALSE]
        ELSE [err |-> "OK", go |-> needs_rebalance(pos, in_range)]

(***************************************************************************)
(* Venue steps of a rebalance.  Each takes and returns st = [err, position,*)
(* tokens]: the position as the handler has written it so far and the      *)
(* tokens as the cross-program calls have moved them so far.  A venue call *)
(* (invoke_signed) returns Ok only if the venue accepts it (the *_cpi_ok   *)
(* input) and the tokens it is to move are there; it then moves exactly    *)
(* those tokens.                                                           *)
(***************************************************************************)
Fail(st, e) == [st EXCEPT !.err = e]

\* one token of withdraw_from_kamino / withdraw_from_lending (`if lending_x > 0 { .. }`)
kamino_withdraw_a(st, cpi_ok) ==
    LET lending_a == st.position.token_a_in_lending
    IN  IF lending_a = 0 THEN st
        ELSE IF ~cpi_ok \/ st.tokens.lend_a < lending_a
                \/ checked_add(st.tokens.vault_a, lending_a) = None
        THEN Fail(st, "VenueError")
        ELSE LET moved == [st EXCEPT !.tokens.lend_a = @ - lending_a,
                                     !.tokens.vault_a = @ + lending_a,
                                     !.position.token_a_in_lending = 0]
             IN  IF checked_add(st.position.token_a_vault_balance, lending_a) = None
                 THEN Fail(moved, "MathOverflow")
                 ELSE [moved EXCEPT !.position.token_a_vault_balance = @ + lending_a]

\* token B left in the lending venue
kamino_withdraw_b_skipped(st, cpi_ok) == st

kamino_withdraw_b(st, cpi_ok) ==
    LET lending_b == st.position.token_b_in_lending
    IN  IF lending_b = 0 THEN st
        ELSE IF ~cpi_ok \/ st.tokens.lend_b < lending_b
                \/ checked_add(st.tokens.vault_b, lending_b) = None
        THEN Fail(st, "VenueError")
        ELSE LET moved == [st EXCEPT !.tokens.lend_b = @ - lending_b,
                                     !.tokens.vault_b = @ + lending_b,
                                     !.position.token_b_in_lending = 0]
             IN  IF checked_add(st.position.token_b_vault_balance, lending_b) = None
                 THEN Fail(moved, "MathOverflow")
                 ELSE [moved EXCEPT !.position.token_b_vault_balance = @ + lending_b]

\* the lending withdrawal that does not ask for the lending accounts
withdraw_from_kamino_unchecked(st, args) ==
    LET sa == kamino_withdraw_a(st, args.kamino_cpi_ok)
    IN  IF sa.err # "OK" THEN sa ELSE kamino_withdraw_b(sa, args.kamino_cpi_ok)

\* RebalancePosition::withdraw_from_kamino
withdraw_from_kamino(st, args) ==
    IF st.position.token_a_in_lending = 0 /\ st.position.token_b_in_lending = 0 THEN st
    ELSE IF ~args.kamino_accounts THEN Fail(st, "LendingPositionNotFound")
    ELSE LET sa == kamino_withdraw_a(st, args.kamino_cpi_ok)
         IN  IF sa.err # "OK" THEN sa ELSE kamino_withdraw_b(sa, args.kamino_cpi_ok)

\* the lending deposit that credits the lending balance and leaves the idle one
kamino_deposit_a_keeps_idle(st, cpi_ok) ==
    LET vault_a == st.position.token_a_vault_balance
    IN  IF vault_a = 0 THEN st
        ELSE IF ~cpi_ok \/ st.tokens.vault_a < vault_a
                \/ checked_add(st.tokens.lend_a, vault_a) = None
        THEN Fail(st, "VenueError")
        ELSE LET moved == [st EXCEPT !.tokens.vault_a = @ - vault_a,
                                     !.tokens.lend_a = @ + vault_a]
             IN  IF checked_add(st.position.token_a_in_lending, vault_a) = None
                 THEN Fail(moved, "MathOverflow")
                 ELSE [moved EXCEPT !.position.token_a_in_lending = @ + vault_a]

\* one token of deposit_to_kamino (`if vault_x > 0 { .. }`)
kamino_deposit_a(st, cpi_ok) ==
    LET vault_a == st.position.token_a_vault_balance
    IN  IF vault_a = 0 THEN st
        ELSE IF ~cpi_ok \/ st.tokens.vault_a < vault_a
                \/ checked_add(st.tokens.lend_a, vault_a) = None
        THEN Fail(st, "VenueError")
        ELSE LET moved == [st EXCEPT !.tokens.vault_a = @ - vault_a,
                                     !.tokens.lend_a = @ + vault_a,
                                     !.position.token_a_vault_balance = 0]
             IN  IF checked_add(st.position.token_a_in_lending, vault_a) = None
                 THEN Fail(moved, "MathOverflow")
                 ELSE [moved EXCEPT !.position.token_a_in_lending = @ + vault_a]

kamino_deposit_b(st, cpi_ok) ==
    LET vault_b == st.position.token_b_vault_balance
    IN  IF vault_b = 0 THEN st
        ELSE IF ~cpi_ok \/ st.tokens.vault_b < vault_b
                \/ checked_add(st.tokens.lend_b, vault_b) = None
        THEN Fail(st, "VenueError")
        ELSE LET moved == [st EXCEPT !.tokens.vault_b = @ - vault_b,
                                     !.tokens.lend_b = @ + vault_b,
                                     !.position.token_b_vault_balance = 0]
             IN  IF checked_add(st.position.token_b_in_lending, vault_b) = None
                 THEN Fail(moved, "MathOverflow")
                 ELSE [moved EXCEPT !.position.token_b_in_lending = @ + vault_b]

\* Position::init_kamino_obligation_cpi, called when the position has no obligation
init_kamino_obligation(st, cpi_ok) ==
    IF st.position.kamino_obligation THEN st
    ELSE IF ~cpi_ok THEN Fail(st, "VenueError")
    ELSE [st EXCEPT !.position.kamino_obligation = TRUE]

\* RebalancePosition::deposit_to_kamino
deposit_to_kamino(st, args) ==
    IF st.position.token_a_vault_balance = 0 /\ st.position.token_b_vault_balance = 0 THEN st
    ELSE IF ~args.kamino_accounts THEN Fail(st, "ExternalProtocolError")
    ELSE LET so == init_kamino_obligation(st, args.kamino_cpi_ok)
             sa == kamino_deposit_a(so, args.kamino_cpi_ok)
         IN  IF so.err # "OK" THEN so
             ELSE IF sa.err # "OK" THEN sa
             ELSE kamino_deposit_b(sa, args.kamino_cpi_ok)

\* Position::close_meteora_position_cpi: the venue returns all it holds for the
\* position; the ledger moves the recorded LP amounts to idle
close_meteora_position_cpi(st, cpi_ok) ==
    LET lp_amount_a == st.position.token_a_in_lp
        lp_amount_b == st.position.token_b_in_lp
    IN  IF lp_amount_a = 0 /\ lp_amount_b = 0 THEN st
        ELSE IF ~cpi_ok \/ checked_add(st.tokens.vault_a, st.tokens.lp_a) = None
                \/ checked_add(st.tokens.vault_b, st.tokens.lp_b) = None
        THEN Fail(st, "VenueError")
        ELSE LET moved == [st EXCEPT !.tokens.vault_a = @ + st.tokens.lp_a,
                                     !.tokens.vault_b = @ + st.tokens.lp_b,
                                     !.tokens.lp_a = 0, !.tokens.lp_b = 0,
                                     !.position.token_a_in_lp = 0,
                                     !.position.token_b_in_lp = 0]
             IN  IF checked_add(st.position.token_a_vault_balance, lp_amount_a) = None
                    \/ checked_add(st.position.token_b_vault_balance, lp_amount_b) = None
                 THEN Fail(moved, "MathOverflow")
                 ELSE [moved EXCEPT !.position.token_a_vault_balance = @ + lp_amount_a,
                                    !.position.token_b_vault_balance = @ + lp_amount_b]

\* the closing that returns nothing
close_meteora_position_skipped(st, args) == st

\* RebalancePosition::close_meteora_position
close_meteora_position(st, args) ==
    IF st.position.token_a_in_lp = 0 /\ st.position.token_b_in_lp = 0 THEN st
    ELSE IF ~args.meteora_accounts THEN Fail(st, "LPPositionNotFound")
    ELSE close_meteora_position_cpi(st, args.meteora_cpi_ok)

\* Position::open_meteora_position_cpi.  calculate_meteora_bin_range adds an
\* i32 offset saturated from an infinite ratio when current_price is 0.
open_meteora_position_cpi(st, cpi_ok, amount_x, amount_y, current_price) ==
    IF current_price = 0 /\ st.position.lp_range_max > 0 THEN Fail(st, "Panic")
    ELSE IF ~cpi_ok \/ st.tokens.vault_a < amount_x \/ st.tokens.vault_b < amount_y
            \/ checked_add(st.tokens.lp_a, amount_x) = None
            \/ checked_add(st.tokens.lp_b, amount_y) = None
    THEN Fail(st, "VenueError")
    ELSE LET moved == [st EXCEPT !.tokens.vault_a = @ - amount_x,
                                 !.tokens.vault_b = @ - amount_y,
                                 !.tokens.lp_a = @ + amount_x,
                                 !.tokens.lp_b = @ + amount_y]
             idle_a == checked_sub(st.position.token_a_vault_balance, amount_x)
             idle_b == checked_sub(st.position.token_b_vault_balance, amount_y)
             lp_a == checked_add(st.position.token_a_in_lp, amount_x)
             lp_b == checked_add(st.position.token_b_in_lp, amount_y)
         IN  IF idle_a = None \/ idle_b = None \/ lp_a = None \/ lp_b = None
             THEN Fail(moved, "MathOverflow")
             ELSE [moved EXCEPT !.position.token_a_vault_balance = idle_a,
                                !.position.token_b_vault_balance = idle_b,
                                !.position.token_a_in_lp = lp_a,
                                !.position.token_b_in_lp = lp_b]

\* the opening that deploys nothing
open_meteora_position_skipped(st, args, current_price) == st

\* RebalancePosition::open_meteora_position
open_meteora_position(st, args, current_price) ==
    LET vault_a == st.position.token_a_vault_balance
        vault_b == st.position.token_b_vault_balance
    IN  IF vault_a = 0 /\ vault_b = 0 THEN st
        ELSE IF ~args.meteora_accounts THEN Fail(st, "ExternalProtocolError")
        ELSE open_meteora_position_cpi(st, args.meteora_cpi_ok, vault_a, vault_b,
                                       current_price)

\* RebalancePosition::balance_tokens_for_lp: computes a suggested swap and
\* performs none; it can only fail
balance_tokens_for_lp(st, current_price) ==
    LET vault_a == st.position.token_a_vault_balance
        vault_b == st.position.token_b_vault_balance
        product_b == checked_mul(vault_b, current_price)
        total_value_a == vault_a
        total_value_b == product_b \div pow10(TOKEN_B_DECIMALS)
        total_value == checked_add(total_value_a, total_value_b)
        target_value_each == total_value \div 2
        excess_value_b == total_value_b - target_value_each
        scaled_excess == checked_mul(excess_value_b, pow10(TOKEN_B_DECIMALS))
    IN  IF product_b = None THEN Fail(st, "MathOverflow")
        ELSE IF total_value = None THEN Fail(st, "MathOverflow")
        ELSE IF total_value = 0 THEN st
        ELSE IF total_value_a > target_value_each THEN st
        ELSE IF total_value_b > target_value_each
        THEN IF scaled_excess = None \/ checked_div(scaled_excess, current_price) = None
             THEN Fail(st, "MathOverflow")
             ELSE st
        ELSE st

(***************************************************************************)
(* rebalance_position                                                      *)
(***************************************************************************)
\* the executor that moves funds between the venues and leaves idle funds
execute_rebalance_between_venues(st, args, in_range, current_price) ==
    LET done(s, action) == [err |-> s.err, position |-> s.position, tokens |-> s.tokens,
                            action |-> IF s.err = "OK" THEN action ELSE ""]
    IN  IF in_range /\ has_lending(st.position)
        THEN done(open_meteora_position(withdraw_from_kamino(st, args), args, current_price),
                  "MoveToLP")
        ELSE IF ~in_range /\ has_lp(st.position)
        THEN done(deposit_to_kamino(close_meteora_position(st, args), args), "MoveToLending")
        ELSE done(st, "NoAction")

\* RebalancePosition::execute_rebalance: [err, position, tokens, action]
execute_rebalance(st, args, in_range, current_price) ==
    LET lp == has_lp(st.position)
        lending == has_lending(st.position)
        idle == has_idle(st.position)
        done(s, action) == [err |-> s.err, position |-> s.position, tokens |-> s.tokens,
                            action |-> IF s.err = "OK" THEN action ELSE ""]
    IN  IF in_range
        THEN LET s1 == IF lending THEN withdraw_from_kamino(st, args) ELSE st
                 s2 == balance_tokens_for_lp(s1, current_price)
                 s3 == open_meteora_position(s2, args, current_price)
             IN  IF s1.err # "OK" THEN done(s1, "")
                 ELSE IF idle \/ lending
                 THEN IF s2.err # "OK" THEN done(s2, "") ELSE done(s3, "MoveToLP")
                 ELSE done(s1, "NoAction")
        ELSE LET s1 == IF lp THEN close_meteora_position(st, args) ELSE st
                 s2 == deposit_to_kamino(s1, args)
             IN  IF s1.err # "OK" THEN done(s1, "")
                 ELSE IF idle \/ lp
                 THEN done(s2, "MoveToLending")
                 ELSE done(s1, "NoAction")

\* the RebalanceEvent of an attempt
RebalanceEvent(current_price, in_range, action) ==
    [NoEvent EXCEPT !.kind = "RebalanceEvent", !.current_price = current_price,
                    !.in_range = in_range, !.action = action]

\* the tracking update that leaves the slot of the last rebalance
update_tracking_keeps_slot(pos, current_price, current_slot) ==
    [pos EXCEPT !.last_rebalance_price = current_price,
                !.total_rebalances = saturating_add(@, 1)]

\* the "Update tracking" assignments of rebalance()
update_tracking(pos, current_price, current_slot) ==
    [pos EXCEPT !.last_rebalance_price = current_price,
                !.last_rebalance_slot = current_slot,
                !.total_rebalances = saturating_add(@, 1)]

\* the rebalance without its pause check
rebalance_allowed_always(pos) == TRUE

\* require!(!self.position.pause_flag, PositionPaused)
rebalance_allowed(pos) == ~pos.pause_flag

\* RebalancePosition::rebalance.  args: the oracle reading (price, conf,
\* exponent, age of the reading in seconds), which optional venue accounts
\* the caller supplied, and whether each venue accepts the calls made to it.
rebalance(owner, id, args) ==
    LET pos == positions[<<owner, id>>]
        st == [err |-> "OK", position |-> pos, tokens |-> tokens[<<owner, id>>]]
        failed(e) == [err |-> e, position |-> pos, tokens |-> st.tokens, event |-> NoEvent]
        price == normalize_pyth_price(args.price, args.exponent, USD_DECIMALS)
        conf == normalize_pyth_price(args.conf, args.exponent, USD_DECIMALS)
        current_price == price.value
        class == classify(current_price, conf.value, pos.lp_range_min, pos.lp_range_max)
        in_range == class = "DefinitelyIn"
        gate == should_rebalance(pos, slot, current_price, in_range)
        ex == execute_rebalance(st, args, in_range, current_price)
    IN  IF ~rebalance_allowed(pos) THEN failed("PositionPaused")
        ELSE IF args.age > PRICE_MAX_AGE THEN failed("PriceTooOld")
        ELSE IF price.err # "OK" THEN failed(price.err)
        ELSE IF conf.err # "OK" THEN failed(conf.err)
        ELSE IF class = "Ambiguous"
        THEN [err |-> "OK", position |-> pos, tokens |-> st.tokens,
              event |-> RebalanceEvent(current_price, FALSE, "NoAction")]
        ELSE IF gate.err # "OK" THEN failed(gate.err)
        ELSE IF ~gate.go
        THEN [err |-> "OK", position |-> pos, tokens |-> st.tokens,
              event |-> RebalanceEvent(current_price, in_range, "NoAction")]
        ELSE IF ex.err # "OK"
        THEN [err |-> ex.err, position |-> ex.position, tokens |-> ex.tokens,
              event |-> NoEvent]
        ELSE [err |-> "OK",
              position |-> update_tracking(ex.position, current_price, slot),
              tokens |-> ex.tokens,
              event |-> RebalanceEvent(current_price, in_range, ex.action)]

\* the rebalance_position instruction
rebalance_position(owner, id, args) ==
    LET acc == position_account(owner, id)
    IN  IF acc # "OK"
        THEN [err |-> acc, position |-> positions[<<owner, id>>],
              tokens |-> tokens[<<owner, id>>], event |-> NoEvent]
        ELSE rebalance(owner, id, args)

(***************************************************************************)
(* check_position_status (instructions/rebalance.rs)                       *)
(***************************************************************************)
\* let maximum_age: u64 = 30
maximum_age == 30

\* the status taken from the confidence interval, as the rebalance classifies
check_status_by_interval(owner, id, args) ==
    LET pos == positions[<<owner, id>>]
        price == normalize_pyth_price(args.price, args.exponent, USD_DECIMALS)
        conf == normalize_pyth_price(args.conf, args.exponent, USD_DECIMALS)
    IN  IF args.age > maximum_age
        THEN [err |-> "PriceTooOld", position |-> pos, event |-> NoEvent]
        ELSE IF price.err # "OK"
        THEN [err |-> price.err, position |-> pos, event |-> NoEvent]
        ELSE [err |-> "OK", position |-> pos,
              event |-> [NoEvent EXCEPT
                  !.kind = "PositionStatusEvent",
                  !.current_price = price.value,
                  !.in_range = classify(price.value, conf.value, pos.lp_range_min,
                                        pos.lp_range_max) = "DefinitelyIn",
                  !.has_lp = has_lp(pos),
                  !.has_lending = has_lending(pos)]]

\* CheckPositionStatus::check_status.  args: the oracle reading (price, conf,
\* exponent, age of the reading in seconds); the position is read, not written.
check_status(owner, id, args) ==
    LET pos == positions[<<owner, id>>]
        price == normalize_pyth_price(args.price, args.exponent, USD_DECIMALS)
        current_price == price.value
    IN  IF args.age > maximum_age
        THEN [err |-> "PriceTooOld", position |-> pos, event |-> NoEvent]
        ELSE IF price.err # "OK"
        THEN [err |-> price.err, position |-> pos, event |-> NoEvent]
        ELSE [err |-> "OK", position |-> pos,
              event |-> [NoEvent EXCEPT
                  !.kind = "PositionStatusEvent",
                  !.current_price = current_price,
                  !.in_range = (current_price >= pos.lp_range_min
                                /\ current_price <= pos.lp_range_max),
                  !.has_lp = has_lp(pos),
                  !.has_lending = has_lending(pos)]]

\* the check_position_status instruction
check_position_status(owner, id, args) ==
    LET acc == position_account(owner, id)
    IN  IF acc # "OK"
        THEN [err |-> acc, position |-> positions[<<owner, id>>], event |-> NoEvent]
        ELSE check_status(owner, id, args)

CheckPositionStatus(owner, id, args) ==
    LET sub == Submitted("check_position_status", owner, id, args)
    IN  \E r \in {check_position_status(owner, id, args)} :
        /\ positions' = [positions EXCEPT ![<<owner, id>>] = Commit(r.err, r.position, @)]
        /\ last' = [sub EXCEPT !.err = r.err, !.event = Commit(r.err, r.event, NoEvent)]
        /\ steps' = steps + 1
        /\ UNCHANGED <<protocol, users, tokens, slot>>

(***************************************************************************)
(* withdraw_from_meteora, withdraw_from_kamino (owner-triggered unwinds)   *)
(***************************************************************************)
\* WithdrawFromMeteora::withdraw_from_lp
withdraw_from_lp(owner, id, cpi_ok) ==
    LET st == [err |-> "OK", position |-> positions[<<owner, id>>],
               tokens |-> tokens[<<owner, id>>]]
        closed == close_meteora_position_cpi(st, cpi_ok)
        withdrawn_a == closed.position.token_a_in_lp
        withdrawn_b == closed.position.token_b_in_lp
        idle_a == checked_add(closed.position.token_a_vault_balance, withdrawn_a)
        idle_b == checked_add(closed.position.token_b_vault_balance, withdrawn_b)
    IN  IF st.position.token_a_in_lp = 0 /\ st.position.token_b_in_lp = 0 THEN st
        ELSE IF closed.err # "OK" THEN closed
        ELSE IF idle_a = None \/ idle_b = None THEN Fail(closed, "MathOverflow")
        ELSE [closed EXCEPT !.position.token_a_in_lp = 0, !.position.token_b_in_lp = 0,
                            !.position.token_a_vault_balance = idle_a,
                            !.position.token_b_vault_balance = idle_b,
                            !.position.meteora_position = FALSE]

\* the lending unwind that withdraws token A alone
withdraw_from_lending_token_a_only(owner, id, cpi_ok) ==
    kamino_withdraw_a([err |-> "OK", position |-> positions[<<owner, id>>],
                       tokens |-> tokens[<<owner, id>>]], cpi_ok)

\* WithdrawFromKamino::withdraw_from_lending
withdraw_from_lending(owner, id, cpi_ok) ==
    LET st == [err |-> "OK", position |-> positions[<<owner, id>>],
               tokens |-> tokens[<<owner, id>>]]
        sa == kamino_withdraw_a(st, cpi_ok)
        sb == kamino_withdraw_b(sa, cpi_ok)
    IN  IF st.position.token_a_in_lending = 0 /\ st.position.token_b_in_lending = 0 THEN st
        ELSE IF sa.err # "OK" THEN sa
        ELSE IF sb.err # "OK" THEN sb
        ELSE [sb EXCEPT !.position.kamino_obligation = FALSE]

(***************************************************************************)
(* Instructions as actions.  Each submits one instruction, commits its     *)
(* account writes if it returned Ok, and records the outcome in `last`.    *)
(***************************************************************************)
InitializeProtocol(fee_recipient, fee_bps) ==
    LET sub == Submitted("initialize_protocol", "", 0, [NoArgs EXCEPT !.fee_bps = fee_bps])
    IN  \E r \in {init_protocol(fee_recipient, fee_bps)} :
        /\ protocol' = Commit(r.err, r.protocol, protocol)
        /\ last' = [sub EXCEPT !.err = r.err]
        /\ steps' = steps + 1
        /\ UNCHANGED <<users, positions, tokens, slot>>

InitializeUser(owner) ==
    LET sub == Submitted("initialize_user", owner, 0, NoArgs)
    IN  \E r \in {init_user(owner)} :
        /\ users' = [users EXCEPT ![owner] = Commit(r.err, r.user, @)]
        /\ last' = [sub EXCEPT !.err = r.err]
        /\ steps' = steps + 1
        /\ UNCHANGED <<protocol, positions, tokens, slot>>

CreatePosition(owner, position_id, lp_range_min, lp_range_max) ==
    LET sub == Submitted("create_position", owner, position_id,
                         [NoArgs EXCEPT !.position_id = position_id,
                                        !.lp_range_min = lp_range_min,
                                        !.lp_range_max = lp_range_max])
    IN  \E r \in {create_position(owner, position_id, lp_range_min, lp_range_max)} :
        /\ positions' = [positions EXCEPT ![<<owner, position_id>>] =
                            Commit(r.err, r.position, @)]
        /\ users' = [users EXCEPT ![owner] = Commit(r.err, r.user, @)]
        /\ protocol' = Commit(r.err, r.protocol, protocol)
        /\ last' = [sub EXCEPT !.err = r.err]
        /\ steps' = steps + 1
        /\ UNCHANGED <<tokens, slot>>

ClosePosition(owner, id) ==
    LET sub == Submitted("close_position", owner, id, NoArgs)
    IN  \E r \in {close_position(owner, id)} :
        /\ positions' = [positions EXCEPT ![<<owner, id>>] = Commit(r.err, r.position, @)]
        /\ users' = [users EXCEPT ![owner] = Commit(r.err, r.user, @)]
        /\ protocol' = Commit(r.err, r.protocol, protocol)
        /\ last' = [sub EXCEPT !.err = r.err]
        /\ steps' = steps + 1
        /\ UNCHANGED <<tokens, slot>>

PausePosition(owner, id) ==
    LET sub == Submitted("pause_position", owner, id, NoArgs)
        acc == position_account(owner, id)
    IN  /\ positions' = [positions EXCEPT ![<<owner, id>>] = Commit(acc, pause(@), @)]
        /\ last' = [sub EXCEPT !.err = acc]
        /\ steps' = steps + 1
        /\ UNCHANGED <<protocol, users, tokens, slot>>

ResumePosition(owner, id) ==
    LET sub == Submitted("resume_position", owner, id, NoArgs)
        acc == position_account(owner, id)
    IN  /\ positions' = [positions EXCEPT ![<<owner, id>>] = Commit(acc, resume(@), @)]
        /\ last' = [sub EXCEPT !.err = acc]
        /\ steps' = steps + 1
        /\ UNCHANGED <<protocol, users, tokens, slot>>

DepositToPosition(owner, id, amount_a, amount_b, user_covers) ==
    LET sub == Submitted("deposit_to_position", owner, id,
                         [NoArgs EXCEPT !.amount_a = amount_a, !.amount_b = amount_b])
    IN  \E r \in {deposit_to_position(owner, id, amount_a, amount_b, user_covers)} :
        /\ positions' = [positions EXCEPT ![<<owner, id>>] = Commit(r.err, r.position, @)]
        /\ tokens' = [tokens EXCEPT ![<<owner, id>>] = Commit(r.err, r.tokens, @)]
        /\ last' = [sub EXCEPT !.err = r.err,
                               !.flows = Commit(r.err, r.flows, NoFlows),
                               !.event = Commit(r.err, r.event, NoEvent)]
        /\ steps' = steps + 1
        /\ UNCHANGED <<protocol, users, slot>>

WithdrawFromPosition(owner, id, withdraw_percentage) ==
    LET sub == Submitted("withdraw_from_position", owner, id,
                         [NoArgs EXCEPT !.percentage = withdraw_percentage])
    IN  \E r \in {withdraw_from_position(owner, id, withdraw_percentage)} :
        /\ positions' = [positions EXCEPT ![<<owner, id>>] = Commit(r.err, r.position, @)]
        /\ tokens' = [tokens EXCEPT ![<<owner, id>>] = Commit(r.err, r.tokens, @)]
        /\ last' = [sub EXCEPT !.err = r.err,
                               !.flows = Commit(r.err, r.flows, NoFlows),
                               !.event = Commit(r.err, r.event, NoEvent)]
        /\ steps' = steps + 1
        /\ UNCHANGED <<protocol, users, slot>>

RebalancePosition(owner, id, args) ==
    LET sub == Submitted("rebalance_position", owner, id, args)
    IN  \E r \in {rebalance_position(owner, id, args)} :
        /\ positions' = [positions EXCEPT ![<<owner, id>>] = Commit(r.err, r.position, @)]
        /\ tokens' = [tokens EXCEPT ![<<owner, id>>] = Commit(r.err, r.tokens, @)]
        /\ last' = [sub EXCEPT !.err = r.err, !.event = Commit(r.err, r.event, NoEvent)]
        /\ steps' = steps + 1
        /\ UNCHANGED <<protocol, users, slot>>

\* the withdraw_from_meteora instruction
withdraw_from_meteora(owner, id, cpi_ok) ==
    LET acc == position_account(owner, id)
    IN  IF acc # "OK"
        THEN [err |-> acc, position |-> positions[<<owner, id>>],
              tokens |-> tokens[<<owner, id>>]]
        ELSE withdraw_from_lp(owner, id, cpi_ok)

WithdrawFromMeteora(owner, id, cpi_ok) ==
    LET sub == Submitted("withdraw_from_meteora", owner, id,
                         [NoArgs EXCEPT !.meteora_accounts = TRUE, !.meteora_cpi_ok = cpi_ok])
    IN  \E r \in {withdraw_from_meteora(owner, id, cpi_ok)} :
        /\ positions' = [positions EXCEPT ![<<owner, id>>] = Commit(r.err, r.position, @)]
        /\ tokens' = [tokens EXCEPT ![<<owner, id>>] = Commit(r.err, r.tokens, @)]
        /\ last' = [sub EXCEPT !.err = r.err]
        /\ steps' = steps + 1
        /\ UNCHANGED <<protocol, users, slot>>

\* the withdraw_from_kamino instruction
withdraw_from_kamino_instruction(owner, id, cpi_ok) ==
    LET acc == position_account(owner, id)
    IN  IF acc # "OK"
        THEN [err |-> acc, position |-> positions[<<owner, id>>],
              tokens |-> tokens[<<owner, id>>]]
        ELSE withdraw_from_lending(owner, id, cpi_ok)

WithdrawFromKamino(owner, id, cpi_ok) ==
    LET sub == Submitted("withdraw_from_kamino", owner, id,
                         [NoArgs EXCEPT !.kamino_accounts = TRUE, !.kamino_cpi_ok = cpi_ok])
    IN  \E r \in {withdraw_from_kamino_instruction(owner, id, cpi_ok)} :
        /\ positions' = [positions EXCEPT ![<<owner, id>>] = Commit(r.err, r.position, @)]
        /\ tokens' = [tokens EXCEPT ![<<owner, id>>] = Commit(r.err, r.tokens, @)]
        /\ last' = [sub EXCEPT !.err = r.err]
        /\ steps' = steps + 1
        /\ UNCHANGED <<protocol, users, slot>>

\* the clock moves on by `d` slots between instructions
Tick(d) ==
    /\ slot + d <= MaxSlot
    /\ slot' = slot + d
    /\ UNCHANGED <<protocol, users, positions, tokens, steps, last>>

(***************************************************************************)
(* Specification of the ledger: protocol and user setup, position          *)
(* creation, pause / resume and close, from the empty chain.               *)
(***************************************************************************)
FeeBpsArgs == {0, 50, MAX_FEE_BPS, MAX_FEE_BPS + 1}
RangeArgs == {<<100, 200>>, <<200, 100>>, <<150, 150>>}

LedgerInit ==
    /\ protocol = NoProtocol
    /\ users = [u \in Users |-> NoUser]
    /\ positions = [k \in PosKeys |-> NoPosition]
    /\ tokens = [k \in PosKeys |-> NoTokens]
    /\ slot = MIN_SLOTS_BETWEEN_REBALANCES   \* deployed on a chain past its first slots
    /\ steps = 0
    /\ last = NoLast

LedgerInitializeProtocol ==
    \E r \in FeeRecipients, f \in FeeBpsArgs :
        steps < MaxLedgerSteps /\ InitializeProtocol(r, f)

LedgerInitializeUser ==
    \E u \in Users : steps < MaxLedgerSteps /\ InitializeUser(u)

LedgerCreatePosition ==
    \E k \in PosKeys, rg \in RangeArgs :
        steps < MaxLedgerSteps /\ CreatePosition(k[1], k[2], rg[1], rg[2])

LedgerClosePosition ==
    \E k \in PosKeys : steps < MaxLedgerSteps /\ ClosePosition(k[1], k[2])

LedgerPausePosition ==
    \E k \in PosKeys : steps < MaxLedgerSteps /\ PausePosition(k[1], k[2])

LedgerResumePosition ==
    \E k \in PosKeys : steps < MaxLedgerSteps /\ ResumePosition(k[1], k[2])

(***************************************************************************)
(* Specification of the funds of one position: deposits, rebalances,       *)
(* unwinds, withdrawals and the closing of position 1 of user u1, from the *)
(* state create_position leaves.                                           *)
(***************************************************************************)
FundOwner == "u1"
FundId == 1
FundKey == <<FundOwner, FundId>>

\* protocol fee rates the funds specification starts from
InitialFeeBps == {0, 50}

\* (amount_a, amount_b) of a deposit
DepositArgs == {<<0, 0>>, <<1000000, 0>>, <<1999, 1000000>>, <<0, U64Max>>}

\* withdraw percentages
PercentArgs == {0, 30, 100, 101}

\* oracle readings the program accepts: in range (through a division), in
\* range within 1% of the first, out of range above, straddling the upper bound
GoodReadings ==
    {[price |-> 15000, conf |-> 100, exponent |-> -8, age |-> 60],
     [price |-> 151, conf |-> 1, exponent |-> -6, age |-> 0],
     [price |-> 250, conf |-> 2, exponent |-> -6, age |-> 0],
     [price |-> 199, conf |-> 5, exponent |-> -6, age |-> 0]}

\* oracle readings the program rejects: too old, zero confidence, non-positive
BadReadings ==
    {[price |-> 150, conf |-> 1, exponent |-> -6, age |-> 61],
     [price |-> 150, conf |-> 0, exponent |-> -6, age |-> 0],
     [price |-> 0, conf |-> 1, exponent |-> -6, age |-> 0]}

\* the venue side of a rebalance: all accounts supplied and both venues accepting
AllVenues ==
    [meteora_accounts |-> TRUE, kamino_accounts |-> TRUE,
     meteora_cpi_ok |-> TRUE, kamino_cpi_ok |-> TRUE]

\* the venue side of a rebalance: as AllVenues; one venue's accounts missing;
\* one venue rejecting its calls
VenueArgs ==
    {AllVenues,
     [meteora_accounts |-> FALSE, kamino_accounts |-> TRUE,
      meteora_cpi_ok |-> TRUE, kamino_cpi_ok |-> TRUE],
     [meteora_accounts |-> TRUE, kamino_accounts |-> FALSE,
      meteora_cpi_ok |-> TRUE, kamino_cpi_ok |-> TRUE],
     [meteora_accounts |-> TRUE, kamino_accounts |-> TRUE,
      meteora_cpi_ok |-> FALSE, kamino_cpi_ok |-> TRUE],
     [meteora_accounts |-> TRUE, kamino_accounts |-> TRUE,
      meteora_cpi_ok |-> TRUE, kamino_cpi_ok |-> FALSE]}

RebalanceArgs(o, v) ==
    [NoArgs EXCEPT !.price = o.price, !.conf = o.conf, !.exponent = o.exponent,
                   !.age = o.age,
                   !.meteora_accounts = v.meteora_accounts,
                   !.kamino_accounts = v.kamino_accounts,
                   !.meteora_cpi_ok = v.meteora_cpi_ok,
                   !.kamino_cpi_ok = v.kamino_cpi_ok]

FundsInit ==
    /\ \E f \in InitialFeeBps :
          protocol = [exists |-> TRUE, fee_recipient |-> "r1", protocol_fee_bps |-> f,
                      total_positions |-> 1]
    /\ users = [u \in Users |->
                  IF u = FundOwner
                  THEN [exists |-> TRUE, position_count |-> 1, total_positions_created |-> 1]
                  ELSE NoUser]
    /\ positions = [k \in PosKeys |-> IF k = FundKey THEN NewPosition(100, 200) ELSE NoPosition]
    /\ tokens = [k \in PosKeys |-> NoTokens]
    /\ slot = 0
    /\ steps = 0
    /\ last = NoLast

FundsDeposit ==
    \E d \in DepositArgs, user_covers \in BOOLEAN :
        steps < MaxFundSteps /\ DepositToPosition(FundOwner, FundId, d[1], d[2], user_covers)

FundsWithdraw ==
    \E pct \in PercentArgs :
        steps < MaxFundSteps /\ WithdrawFromPosition(FundOwner, FundId, pct)

\* the inputs of a rebalance: an accepted reading with any venue case, or a
\* rejected reading
RebalanceInputs ==
    {RebalanceArgs(o, v) : o \in GoodReadings, v \in VenueArgs}
        \cup {RebalanceArgs(o, AllVenues) : o \in BadReadings}

FundsRebalance ==
    \E args \in RebalanceInputs :
        steps < MaxFundSteps /\ RebalancePosition(FundOwner, FundId, args)

FundsWithdrawFromMeteora ==
    \E ok \in BOOLEAN : steps < MaxFundSteps /\ WithdrawFromMeteora(FundOwner, FundId, ok)

FundsWithdrawFromKamino ==
    \E ok \in BOOLEAN : steps < MaxFundSteps /\ WithdrawFromKamino(FundOwner, FundId, ok)

FundsPause == steps < MaxFundSteps /\ PausePosition(FundOwner, FundId)

FundsResume == steps < MaxFundSteps /\ ResumePosition(FundOwner, FundId)

FundsClose == steps < MaxFundSteps /\ ClosePosition(FundOwner, FundId)

FundsTick == Tick(MIN_SLOTS_BETWEEN_REBALANCES)

FundsNext ==
    \/ FundsDeposit
    \/ FundsWithdraw
    \/ FundsRebalance
    \/ FundsWithdrawFromMeteora
    \/ FundsWithdrawFromKamino
    \/ FundsPause
    \/ FundsResume
    \/ FundsClose
    \/ FundsTick

Spec == FundsInit /\ [][FundsNext]_vars

(***************************************************************************)
(* The ledger specification, continued: the fund instructions on any       *)
(* position, one argument choice each, next to the account instructions.   *)
(***************************************************************************)
LedgerDeposit ==
    \E k \in PosKeys :
        steps < MaxLedgerSteps /\ DepositToPosition(k[1], k[2], 1000000, 1999, TRUE)

LedgerWithdraw ==
    \E k \in PosKeys : steps < MaxLedgerSteps /\ WithdrawFromPosition(k[1], k[2], 30)

\* an out-of-range reading with every venue account supplied
LedgerRebalance ==
    \E k \in PosKeys :
        /\ steps < MaxLedgerSteps
        /\ RebalancePosition(k[1], k[2],
              RebalanceArgs([price |-> 250, conf |-> 2, exponent |-> -6, age |-> 0],
                            AllVenues))

LedgerWithdrawFromKamino ==
    \E k \in PosKeys : steps < MaxLedgerSteps /\ WithdrawFromKamino(k[1], k[2], TRUE)

LedgerNext ==
    \/ LedgerInitializeProtocol
    \/ LedgerInitializeUser
    \/ LedgerCreatePosition
    \/ LedgerClosePosition
    \/ LedgerPausePosition
    \/ LedgerResumePosition
    \/ LedgerDeposit
    \/ LedgerWithdraw
    \/ LedgerRebalance
    \/ LedgerWithdrawFromKamino

SpecLedger == LedgerInit /\ [][LedgerNext]_vars

(***************************************************************************)
(* Specification of the fee computation alone: an amount and a fee rate    *)
(* are drawn, and the fee and the net amount are computed as the deposit   *)
(* and withdraw handlers compute them.                                     *)
(***************************************************************************)
\* amounts: around 0, around the fee denominator, and the largest words
FeeAmounts == {0, 1, 2, 199, 9999, 10000, 10001, 1000000, U64Max - 1, U64Max}

\* fee rates up to the denominator (initialize_protocol itself stores at most MAX_FEE_BPS)
FeeRates == {0, 1, 50, MAX_FEE_BPS, BPS_DENOMINATOR - 1, BPS_DENOMINATOR}

FeeInit ==
    /\ protocol = NoProtocol
    /\ users = [u \in Users |-> NoUser]
    /\ positions = [k \in PosKeys |-> NoPosition]
    /\ tokens = [k \in PosKeys |-> NoTokens]
    /\ slot = 0
    /\ steps = 0
    /\ \E amount \in FeeAmounts, fee_bps \in FeeRates :
          last = [NoLast EXCEPT !.args.amount_a = amount, !.args.fee_bps = fee_bps]

\* the fee lands in event.fee_a and the net amount in event.amount_a
FeeCompute ==
    /\ last.op = ""
    /\ \E r \in {fee_and_net(last.args.amount_a, last.args.fee_bps)} :
          last' = [last EXCEPT !.op = "fee_and_net", !.err = r.err,
                               !.event.fee_a = r.fee, !.event.amount_a = r.net]
    /\ UNCHANGED <<protocol, users, positions, tokens, slot, steps>>

SpecFee == FeeInit /\ [][FeeCompute]_vars

(***************************************************************************)
(* Specification of one withdrawal: a position is drawn with any six       *)
(* balances (a superset of what the instructions leave: the withdrawal     *)
(* arithmetic does not depend on how the balances arose), its vaults hold  *)
(* its idle balances, and withdraw_from_position is called once.           *)
(***************************************************************************)
\* (idle, lp, lending) of token A, and of token B
WithdrawBalancesA ==
    {<<idle, lp, lending>> : idle \in {0, 500, U64Max}, lp \in {0, 300}, lending \in {0, 200}}

WithdrawBalancesB == {<<0, 0, 0>>, <<1999, 7, 1>>}

\* fee rates initialize_protocol accepts
WithdrawFeeBps == {0, 50, MAX_FEE_BPS}

WithdrawPercentArgs == {0, 1, 30, 99, 100, 101}

WithdrawInit ==
    /\ \E f \in WithdrawFeeBps :
          protocol = [exists |-> TRUE, fee_recipient |-> "r1", protocol_fee_bps |-> f,
                      total_positions |-> 1]
    /\ users = [u \in Users |->
                  IF u = FundOwner
                  THEN [exists |-> TRUE, position_count |-> 1, total_positions_created |-> 1]
                  ELSE NoUser]
    /\ \E a \in WithdrawBalancesA, b \in WithdrawBalancesB :
          /\ positions = [k \in PosKeys |->
                            IF k = FundKey
                            THEN [NewPosition(100, 200) EXCEPT
                                    !.token_a_vault_balance = a[1], !.token_a_in_lp = a[2],
                                    !.token_a_in_lending = a[3],
                                    !.token_b_vault_balance = b[1], !.token_b_in_lp = b[2],
                                    !.token_b_in_lending = b[3]]
                            ELSE NoPosition]
          /\ tokens = [k \in PosKeys |->
                         IF k = FundKey
                         THEN [vault_a |-> a[1], vault_b |-> b[1], lp_a |-> a[2], lp_b |-> b[2],
                               lend_a |-> a[3], lend_b |-> b[3]]
                         ELSE NoTokens]
    /\ slot = 0
    /\ steps = 0
    /\ last = NoLast

WithdrawOnce ==
    \E pct \in WithdrawPercentArgs :
        steps = 0 /\ WithdrawFromPosition(FundOwner, FundId, pct)

SpecWithdraw == WithdrawInit /\ [][WithdrawOnce]_vars

(***************************************************************************)
(* normalize_pyth_price at the full width of u64 (instructions/rebalance.rs)*)
(* A u64 is written in three decimal limbs <<l2, l1, l0>> of LimbDigits    *)
(* digits each: its value is l2 * LimbBase^2 + l1 * LimbBase + l0.         *)
(***************************************************************************)
LimbDigits == 7

LimbBase == 10 ^ LimbDigits

\* u64::MAX = 18446744073709551615
U64MaxWide == <<184467, 4407370, 9551615>>

ZeroWide == <<0, 0, 0>>

\* Option::None of checked arithmetic on u64 in limbs
NoneWide == <<>>

\* a <= b
WideLeq(a, b) ==
    \/ a[1] < b[1]
    \/ a[1] = b[1] /\ a[2] < b[2]
    \/ a[1] = b[1] /\ a[2] = b[2] /\ a[3] <= b[3]

\* a * n for a small n, not reduced (the top limb takes the carry)
WideMulSmall(a, n) ==
    LET p0 == a[3] * n
        p1 == a[2] * n + p0 \div LimbBase
    IN  <<a[1] * n + p1 \div LimbBase, p1 % LimbBase, p0 % LimbBase>>

\* a / 10^r truncating, for r <= LimbDigits: the digits move down by r places
WideShiftDown(a, r) ==
    LET low == 10 ^ r
        high == 10 ^ (LimbDigits - r)
    IN  <<a[1] \div low,
          (a[1] % low) * high + a[2] \div low,
          (a[2] % low) * high + a[3] \div low>>

\* a.checked_mul(10^r) for r <= LimbDigits: the digits move up by r places;
\* NoneWide when the product is above u64::MAX (or a is NoneWide already)
checked_shift_up(a, r) ==
    LET low == 10 ^ r
        high == 10 ^ (LimbDigits - r)
    IN  IF a = NoneWide THEN NoneWide
        ELSE IF a[1] > U64MaxWide[1] \div low THEN NoneWide
        ELSE LET v == <<a[1] * low + a[2] \div high,
                        (a[2] % high) * low + a[3] \div high,
                        (a[3] % high) * low>>
             IN  IF WideLeq(v, U64MaxWide) THEN v ELSE NoneWide

\* the i-th group of at most LimbDigits places out of k places
Places(k, i) ==
    IF k - LimbDigits * i >= LimbDigits THEN LimbDigits
    ELSE IF k - LimbDigits * i > 0 THEN k - LimbDigits * i
    ELSE 0

\* the largest k for which 10^k fits u64
MaxPow10 == 19

\* a / 10u64.pow(k) truncating, for k <= MaxPow10
div_pow10(a, k) ==
    WideShiftDown(WideShiftDown(WideShiftDown(a, Places(k, 0)), Places(k, 1)), Places(k, 2))

\* a.checked_mul(10u64.pow(k)) for k <= MaxPow10: NoneWide when the product
\* is above u64::MAX
checked_mul_pow10(a, k) ==
    checked_shift_up(checked_shift_up(checked_shift_up(a, Places(k, 0)), Places(k, 1)),
                     Places(k, 2))

\* 10^k modulo 2^64 for k = 20 .. 63
Pow10Mod2Pow64 ==
    <<
      <<77662, 7963145, 2241920>>, <<38758, 2001968, 4212736>>, <<18647, 1204942, 3024128>>, <<2003, 7642052, 689664>>,
      <<20037, 6420520, 6896640>>, <<15908, 9797835, 9414784>>, <<159089, 7978359, 4147840>>, <<115158, 4524626, 5065472>>,
      <<44779, 8802039, 3345024>>, <<78863, 9205651, 4347008>>, <<50769, 4427030, 5263616>>, <<138759, 5455563, 3532928>>,
      <<96323, 3704036, 8467968>>, <<40896, 5003513, 6921600>>, <<40030, 1220395, 112768>>, <<31366, 3389208, 2024448>>,
      <<129195, 9484711, 692864>>, <<687, 3995514, 67328>>, <<6873, 9955140, 673280>>, <<68739, 9551400, 6732800>>,
      <<133997, 2291893, 8673152>>, <<48700, 2067341, 9870208>>, <<118067, 1858677, 9598848>>, <<73867, 2142553, 8678784>>,
      <<802, 3796054, 8581376>>, <<8023, 7960548, 5813760>>, <<80237, 9605485, 8137600>>, <<64509, 8425374, 3169536>>,
      <<91696, 1031630, 3040512>>, <<179091, 2686819, 2198656>>, <<130705, 7201853, 6022016>>, <<15785, 1166939, 3358848>>,
      <<157851, 1669393, 3588480>>, <<102772, 1434965, 9471872>>, <<105384, 2312804, 6960640>>, <<131505, 1091192, 1848320>>,
      <<23779, 60325, 1621888>>, <<53322, 6195880, 6667264>>, <<164291, 3144064, 7569408>>, <<167173, 6181679, 9281152>>,
      <<11529, 2150460, 6846976>>, <<115292, 1504606, 8469760>>, <<46116, 8601842, 7387904>>, <<92233, 7203685, 4775808>>
    >>

\* 10u64.pow(k) for k > MaxPow10 in a build without overflow checks:
\* 10^k modulo 2^64, which is 0 from k = 64 on (2^64 divides 10^64)
pow10_wrapping(k) == IF k >= 64 THEN ZeroWide ELSE Pow10Mod2Pow64[k - MaxPow10]

\* the largest quotient of an i64 by a nonzero wrapped power of ten
MaxQuotient == 134

\* a / d truncating, for a up to i64::MAX and d a nonzero wrapped power of ten
WideDiv(a, d) ==
    LET q == CHOOSE n \in 0..MaxQuotient :
                 /\ WideLeq(WideMulSmall(d, n), a)
                 /\ ~WideLeq(WideMulSmall(d, n + 1), a)
    IN  <<0, 0, q>>

\* the divide branch with the power of ten taken for a multiplication
normalize_pyth_price_wide_multiplying(price, exponent, target_decimals, overflow_checks) ==
    LET pyth_decimals == as_u8(0 - exponent)
        k == IF pyth_decimals > target_decimals THEN pyth_decimals - target_decimals
             ELSE target_decimals - pyth_decimals
    IN  IF price.negative \/ price.magnitude = ZeroWide
        THEN [err |-> "StalePriceData", value |-> ZeroWide]
        ELSE IF k > MaxPow10 THEN [err |-> "Panic", value |-> ZeroWide]
        ELSE IF checked_mul_pow10(price.magnitude, k) = NoneWide
             THEN [err |-> "MathOverflow", value |-> ZeroWide]
             ELSE [err |-> "OK", value |-> checked_mul_pow10(price.magnitude, k)]

\* normalize_pyth_price: [err, value]. price is an i64 given by its sign and
\* its magnitude; target_decimals is at most MaxPow10 (every call passes 6),
\* so the multiplier always fits. 10u64.pow() of a power that does not fit
\* aborts in a build with overflow checks and wraps in one without; a
\* division by the wrapped power aborts when that power is 0.
normalize_pyth_price_wide(price, exponent, target_decimals, overflow_checks) ==
    LET pyth_decimals == as_u8(0 - exponent)
    IN  IF price.negative \/ price.magnitude = ZeroWide
        THEN [err |-> "StalePriceData", value |-> ZeroWide]
        ELSE IF pyth_decimals > target_decimals
        THEN LET k == pyth_decimals - target_decimals
             IN  IF k <= MaxPow10
                 THEN [err |-> "OK", value |-> div_pow10(price.magnitude, k)]
                 ELSE IF overflow_checks \/ pow10_wrapping(k) = ZeroWide
                 THEN [err |-> "Panic", value |-> ZeroWide]
                 ELSE [err |-> "OK", value |-> WideDiv(price.magnitude, pow10_wrapping(k))]
        ELSE IF pyth_decimals < target_decimals
        THEN LET product == checked_mul_pow10(price.magnitude, target_decimals - pyth_decimals)
             IN  IF product = NoneWide
                 THEN [err |-> "MathOverflow", value |-> ZeroWide]
                 ELSE [err |-> "OK", value |-> product]
        ELSE [err |-> "OK", value |-> price.magnitude]

(***************************************************************************)
(* Specification of the price normalizer alone: a raw price, an exponent,  *)
(* a number of target decimals and the build's treatment of overflow are   *)
(* drawn, and normalize_pyth_price is applied once.                        *)
(***************************************************************************)
\* raw prices: -150, 0, 1, 150, 999999, 15000000000, 18446744073709,
\* 18446744073710 (the last two around u64::MAX / 10^6), 7766279631452241920
\* (10^20 modulo 2^64) and i64::MAX
NormalizePrices ==
    {[negative |-> TRUE, magnitude |-> <<0, 0, 150>>]} \cup
    {[negative |-> FALSE, magnitude |-> m] :
        m \in {ZeroWide, <<0, 0, 1>>, <<0, 0, 150>>, <<0, 0, 999999>>, <<0, 1500, 0>>,
               <<0, 1844674, 4073709>>, <<0, 1844674, 4073710>>,
               <<77662, 7963145, 2241920>>, <<92233, 7203685, 4775807>>}}

\* exponents: the usual negative ones, 0, positive ones, those whose power of
\* ten is the first not to fit, and those below -255
NormalizeExponents == {-262, -256, -40, -26, -25, -12, -8, -7, -6, -5, -2, -1, 0, 1, 2}

NormalizeTargets == {0, 6, 9}

NormalizeInit ==
    /\ protocol = NoProtocol
    /\ users = [u \in Users |-> NoUser]
    /\ positions = [k \in PosKeys |-> NoPosition]
    /\ tokens = [k \in PosKeys |-> NoTokens]
    /\ slot = 0
    /\ steps = 0
    /\ \E price \in NormalizePrices, exponent \in NormalizeExponents,
          target_decimals \in NormalizeTargets, overflow_checks \in BOOLEAN :
          last = [op |-> "",
                  args |-> [price |-> price, exponent |-> exponent,
                            target_decimals |-> target_decimals,
                            overflow_checks |-> overflow_checks],
                  err |-> "", value |-> ZeroWide]

Normalize ==
    /\ last.op = ""
    /\ \E r \in {normalize_pyth_price_wide(last.args.price, last.args.exponent,
                                           last.args.target_decimals,
                                           last.args.overflow_checks)} :
          last' = [last EXCEPT !.op = "normalize_pyth_price",
                               !.err = r.err, !.value = r.value]
    /\ UNCHANGED <<protocol, users, positions, tokens, slot, steps>>

SpecNormalize == NormalizeInit /\ [][Normalize]_vars

(***************************************************************************)
(* Specification of the range classification alone: a normalized price, a  *)
(* normalized confidence and the range of a position are drawn, and the    *)
(* classification of rebalance() is applied once.                          *)
(***************************************************************************)
\* normalized prices: the ends of the word and around the bounds of the ranges
ClassifyPrices ==
    {0, 1, 99000000, 100000000, 101000000, 150000000,
     199000000, 200000000, 201000000, U64Max}

\* normalized confidences (0 when the division of the normalization rounds down to 0)
ClassifyConfidences == {0, 1, 1000000, 2000000, U64Max}

\* ranges a position can have (lp_range_min < lp_range_max)
ClassifyRanges ==
    {r \in {<<100000000, 200000000>>, <<100000000, 100000001>>, <<0, U64Max>>, <<1, U64Max - 1>>} :
        valid_price_range(r[1], r[2])}

ClassifyInit ==
    /\ protocol = NoProtocol
    /\ users = [u \in Users |-> NoUser]
    /\ positions = [k \in PosKeys |-> NoPosition]
    /\ tokens = [k \in PosKeys |-> NoTokens]
    /\ slot = 0
    /\ steps = 0
    /\ \E price \in ClassifyPrices, conf \in ClassifyConfidences, r \in ClassifyRanges :
          last = [op |-> "",
                  args |-> [NoArgs EXCEPT !.price = price, !.conf = conf,
                                          !.lp_range_min = r[1], !.lp_range_max = r[2]],
                  definitely_in_range |-> FALSE, definitely_out_of_range |-> FALSE,
                  class |-> ""]

\* the two flags and the branch taken are kept in last
Classify ==
    /\ last.op = ""
    /\ \E lower \in {price_lower(last.args.price, last.args.conf)},
          upper \in {price_upper(last.args.price, last.args.conf)} :
          last' = [last EXCEPT
                     !.op = "classify",
                     !.definitely_in_range =
                         definitely_in_range(lower, upper, last.args.lp_range_min, last.args.lp_range_max),
                     !.definitely_out_of_range =
                         definitely_out_of_range(lower, upper, last.args.lp_range_min, last.args.lp_range_max),
                     !.class = classify(last.args.price, last.args.conf,
                                        last.args.lp_range_min, last.args.lp_range_max)]
    /\ UNCHANGED <<protocol, users, positions, tokens, slot, steps>>

SpecClassify == ClassifyInit /\ [][Classify]_vars

(***************************************************************************)
(* Specification of the cooldown: deposits, rebalances and status checks   *)
(* of position 1 of user u1 with every venue accepting, the clock          *)
(* advancing by one slot less than the cooldown or by the cooldown.        *)
(***************************************************************************)
CooldownDeposit ==
    steps < MaxFundSteps /\ DepositToPosition(FundOwner, FundId, 1000000, 1999, TRUE)

\* readings far above the range, less than 1% apart
DistantReadings ==
    {[price |-> 11000000, conf |-> 1, exponent |-> -6, age |-> 0],
     [price |-> 11108000, conf |-> 1, exponent |-> -6, age |-> 0]}

CooldownRebalance ==
    \E o \in GoodReadings \cup DistantReadings :
        steps < MaxFundSteps /\ RebalancePosition(FundOwner, FundId, RebalanceArgs(o, AllVenues))

CooldownTick ==
    \E d \in {MIN_SLOTS_BETWEEN_REBALANCES - 1, MIN_SLOTS_BETWEEN_REBALANCES} : Tick(d)

\* a status check with any reading, accepted by the rebalance or not
CooldownCheckStatus ==
    \E o \in GoodReadings \cup BadReadings \cup DistantReadings :
        steps < MaxFundSteps
            /\ CheckPositionStatus(FundOwner, FundId, RebalanceArgs(o, NoArgs))

CooldownNext == CooldownDeposit \/ CooldownRebalance \/ CooldownCheckStatus \/ CooldownTick

SpecCooldown == FundsInit /\ [][CooldownNext]_vars

(***************************************************************************)
(* Properties of the funds of one position, under Spec                     *)
(***************************************************************************)
\* the position the funds specification works on, and the tokens held for it
Pos == positions[FundKey]
Tok == tokens[FundKey]

\* floor(a * b / d) for b <= d, without an intermediate above a
FloorOfProduct(a, b, d) == (a \div d) * b + ((a % d) * b) \div d

BalanceFields ==
    {"token_a_vault_balance", "token_b_vault_balance", "token_a_in_lp", "token_b_in_lp",
     "token_a_in_lending", "token_b_in_lending"}

BalancesUnchanged == \A f \in BalanceFields : Pos[f] = last.pre[f]

\* C1: whenever rebalance_position succeeds, whatever action it reports,
\* idle_X + lp_X + lending_X of the position is after the instruction what it
\* was before it, for token A and for token B independently (what the idle
\* balance gained is what the LP and lending balances lost).
C1_Conservation ==
    (last.op = "rebalance_position" /\ last.err = "OK") =>
        /\ Pos.token_a_vault_balance - last.pre.token_a_vault_balance
             = (last.pre.token_a_in_lp - Pos.token_a_in_lp)
               + (last.pre.token_a_in_lending - Pos.token_a_in_lending)
        /\ Pos.token_b_vault_balance - last.pre.token_b_vault_balance
             = (last.pre.token_b_in_lp - Pos.token_b_in_lp)
               + (last.pre.token_b_in_lending - Pos.token_b_in_lending)

\* a successful rebalance that moved funds out of lending
C1_Witness ==
    /\ last.op = "rebalance_position" /\ last.err = "OK"
    /\ last.event.action = "MoveToLP"
    /\ last.pre.token_a_in_lending > 0 /\ Pos.token_a_in_lending = 0
    /\ Pos.token_a_in_lp > 0

\* C2: when the confidence interval [price - confidence, price + confidence]
\* of an accepted reading is neither entirely inside nor entirely outside
\* [lp_range_min, lp_range_max], rebalance_position on an unpaused position
\* succeeds with action NoAction and leaves the six balances as they were,
\* whatever the balances, the cooldown and the last rebalance price are.
C2_AmbiguousNoAction ==
    LET p == normalize_pyth_price(last.args.price, last.args.exponent, USD_DECIMALS)
        c == normalize_pyth_price(last.args.conf, last.args.exponent, USD_DECIMALS)
        lo == IF c.value > p.value THEN 0 ELSE p.value - c.value
        hi == p.value + c.value
        inside == lo >= last.pre.lp_range_min /\ hi <= last.pre.lp_range_max
        outside == hi < last.pre.lp_range_min \/ lo > last.pre.lp_range_max
    IN  ( /\ last.op = "rebalance_position"
          /\ last.pre.exists /\ ~last.pre.pause_flag
          /\ last.args.age <= PRICE_MAX_AGE /\ p.err = "OK" /\ c.err = "OK"
          /\ ~inside /\ ~outside ) =>
            /\ last.err = "OK"
            /\ last.event.action = "NoAction"
            /\ BalancesUnchanged

\* an ambiguous reading while the position has idle funds and its cooldown
\* has elapsed
C2_Witness ==
    /\ last.op = "rebalance_position" /\ last.err = "OK"
    /\ last.args.price = 199 /\ last.args.conf = 5
    /\ last.event.action = "NoAction"
    /\ has_idle(last.pre)
    /\ last.pre_slot - last.pre.last_rebalance_slot >= MIN_SLOTS_BETWEEN_REBALANCES

DepositEffect(amount, idle_before, idle_after, vault_before, vault_after,
              to_user, to_vault, to_fee) ==
    LET fee == FloorOfProduct(amount, last.pre_protocol.protocol_fee_bps, BPS_DENOMINATOR)
    IN  /\ idle_after = idle_before + (amount - fee)
        /\ vault_after = vault_before + (amount - fee)
        /\ to_vault = amount - fee
        /\ to_fee = fee
        /\ to_user = 0 - amount

\* the effect of a successful withdrawal on the six balances
WithdrawEffect ==
    \A f \in BalanceFields :
        Pos[f] = FloorOfProduct(last.pre[f], 100 - last.args.percentage, 100)

\* C4: while the pause flag is set every rebalance_position on the position
\* fails with PositionPaused and changes nothing; deposit_to_position and
\* withdraw_from_position are never refused for the pause, have their usual
\* effect and leave the flag set.
C4_PauseBlocksOnlyRebalance ==
    /\ (last.op = "rebalance_position" /\ last.pre.exists /\ last.pre.pause_flag) =>
          /\ last.err = "PositionPaused"
          /\ Pos = last.pre
          /\ Tok = last.pre_tokens
    /\ (last.op = "deposit_to_position" /\ last.pre.pause_flag) =>
          /\ last.err \in {"OK", "TokenProgramError"}
          /\ Pos.pause_flag
          /\ last.err = "OK" =>
                /\ DepositEffect(last.args.amount_a, last.pre.token_a_vault_balance,
                                 Pos.token_a_vault_balance, last.pre_tokens.vault_a,
                                 Tok.vault_a, last.flows.user_a, last.flows.vault_a,
                                 last.flows.fee_a)
                /\ DepositEffect(last.args.amount_b, last.pre.token_b_vault_balance,
                                 Pos.token_b_vault_balance, last.pre_tokens.vault_b,
                                 Tok.vault_b, last.flows.user_b, last.flows.vault_b,
                                 last.flows.fee_b)
    /\ (last.op = "withdraw_from_position" /\ last.pre.pause_flag
        /\ last.args.percentage \in 1..100) =>
          /\ last.err \in {"OK", "MathOverflow"}
          /\ Pos.pause_flag
          /\ last.err = "OK" => WithdrawEffect

\* a rebalance refused on a paused position that holds funds, with a reading
\* and venues that would otherwise move them
C4_Witness ==
    /\ last.op = "rebalance_position" /\ last.err = "PositionPaused"
    /\ has_idle(last.pre)
    /\ last.args.price = 151
    /\ last.args.meteora_accounts /\ last.args.meteora_cpi_ok
    /\ last.pre_slot - last.pre.last_rebalance_slot >= MIN_SLOTS_BETWEEN_REBALANCES

\* C8: a successful deposit_to_position takes, for each token, the fee
\* floor(amount * protocol_fee_bps / 10000), increases the idle balance by
\* amount - fee, moves amount - fee tokens into the vault and fee tokens to the
\* fee recipient, and debits the user amount; a token whose amount is 0 moves
\* nothing and leaves its idle balance; a deposit of nothing succeeds; and
\* 1,000,000 of token A at 50 bps gives the fee 5,000 and idle_A + 995,000.
C8_DepositAccounting ==
    /\ (last.op = "deposit_to_position" /\ last.err = "OK") =>
          /\ DepositEffect(last.args.amount_a, last.pre.token_a_vault_balance,
                           Pos.token_a_vault_balance, last.pre_tokens.vault_a,
                           Tok.vault_a, last.flows.user_a, last.flows.vault_a,
                           last.flows.fee_a)
          /\ DepositEffect(last.args.amount_b, last.pre.token_b_vault_balance,
                           Pos.token_b_vault_balance, last.pre_tokens.vault_b,
                           Tok.vault_b, last.flows.user_b, last.flows.vault_b,
                           last.flows.fee_b)
          /\ \A f \in BalanceFields \ {"token_a_vault_balance", "token_b_vault_balance"} :
                Pos[f] = last.pre[f]
          /\ last.args.amount_a = 0 =>
                /\ Pos.token_a_vault_balance = last.pre.token_a_vault_balance
                /\ last.flows.user_a = 0 /\ last.flows.vault_a = 0 /\ last.flows.fee_a = 0
          /\ last.args.amount_b = 0 =>
                /\ Pos.token_b_vault_balance = last.pre.token_b_vault_balance
                /\ last.flows.user_b = 0 /\ last.flows.vault_b = 0 /\ last.flows.fee_b = 0
          /\ (last.args.amount_a = 1000000 /\ last.pre_protocol.protocol_fee_bps = 50) =>
                /\ last.flows.fee_a = 5000
                /\ Pos.token_a_vault_balance = last.pre.token_a_vault_balance + 995000
    /\ (last.op = "deposit_to_position" /\ last.pre.exists
        /\ last.args.amount_a = 0 /\ last.args.amount_b = 0) =>
          /\ last.err = "OK"
          /\ Pos = last.pre

\* the deposit of 1,000,000 of token A and none of token B at 50 bps
C8_Witness ==
    /\ last.op = "deposit_to_position" /\ last.err = "OK"
    /\ last.args.amount_a = 1000000 /\ last.args.amount_b = 0
    /\ last.pre_protocol.protocol_fee_bps = 50
    /\ last.flows.fee_a = 5000

\* C10: withdraw_from_position with percentage 0 or above 100 fails with
\* InvalidPercentage, changes no field of the position and moves no tokens.
C10_InvalidPercentage ==
    (last.op = "withdraw_from_position" /\ last.pre.exists
     /\ (last.args.percentage = 0 \/ last.args.percentage > 100)) =>
        /\ last.err = "InvalidPercentage"
        /\ Pos = last.pre
        /\ Tok = last.pre_tokens
        /\ last.flows = NoFlows

\* a refused withdrawal of 0 percent from a position that holds funds
C10_Witness ==
    /\ last.op = "withdraw_from_position" /\ last.err = "InvalidPercentage"
    /\ last.args.percentage = 0
    /\ has_idle(last.pre)

(***************************************************************************)
(* Properties of position creation, under SpecLedger                       *)
(***************************************************************************)
\* the position account the last instruction addressed
LastPos == positions[<<last.owner, last.id>>]

\* the account constraints of the last create_position passed: no account at
\* the position's address, and the user and protocol accounts exist
CreateReachedHandler ==
    ~last.pre.exists /\ last.pre_user.exists /\ last.pre_protocol.exists

LastRangeValid == last.args.lp_range_min < last.args.lp_range_max

C6_InvalidPriceRange ==
    /\ (last.op = "create_position" /\ last.args.lp_range_min >= last.args.lp_range_max) =>
          /\ last.err # "OK"
          /\ CreateReachedHandler => last.err = "InvalidPriceRange"
          /\ users[last.owner] = last.pre_user
          /\ protocol = last.pre_protocol
          /\ LastPos = last.pre
    /\ \A k \in PosKeys :
          positions[k].exists => positions[k].lp_range_min < positions[k].lp_range_max

\* an empty range (min = max) refused for a user who already has a position,
\* with an id that is not the next one either
C6_Witness ==
    /\ last.op = "create_position" /\ last.err = "InvalidPriceRange"
    /\ last.args.lp_range_min = last.args.lp_range_max
    /\ last.pre_user.total_positions_created = 1
    /\ last.id = 3
    /\ positions[<<last.owner, 1>>].token_a_in_lending > 0

\* C7: a successful create_position leaves a position whose six balances are
\* 0, whose pause flag is false, whose last_rebalance_price,
\* last_rebalance_slot and total_rebalances are 0 and whose venue handles are
\* absent, with the range asked for, and adds exactly 1 to
\* user.position_count, user.total_positions_created and
\* protocol.total_positions.
C7_CreateEffect ==
    (last.op = "create_position" /\ last.err = "OK") =>
        /\ LastPos.exists
        /\ \A f \in BalanceFields : LastPos[f] = 0
        /\ ~LastPos.pause_flag
        /\ LastPos.last_rebalance_price = 0
        /\ LastPos.last_rebalance_slot = 0
        /\ LastPos.total_rebalances = 0
        /\ ~LastPos.meteora_position /\ ~LastPos.kamino_obligation
        /\ LastPos.lp_range_min = last.args.lp_range_min
        /\ LastPos.lp_range_max = last.args.lp_range_max
        /\ users[last.owner].position_count = last.pre_user.position_count + 1
        /\ users[last.owner].total_positions_created
             = last.pre_user.total_positions_created + 1
        /\ protocol.total_positions = last.pre_protocol.total_positions + 1

\* a second position created after the first was closed: position_count and
\* total_positions_created start from different values
C7_Witness ==
    /\ last.op = "create_position" /\ last.err = "OK"
    /\ last.id = 2
    /\ last.pre_user.position_count = 0
    /\ last.pre_user.total_positions_created = 1
    /\ protocol.total_positions = 1

(***************************************************************************)
(* Properties of the fee computation, under SpecFee                        *)
(***************************************************************************)
\* C9: for every amount and every fee_bps <= 10000 the computation does not
\* fail, the fee is floor(amount * fee_bps / 10000), fee + net = amount and
\* 0 <= fee <= amount.
C9_FeePlusNet ==
    last.op = "fee_and_net" =>
        /\ last.err = "OK"
        /\ last.event.fee_a
             = FloorOfProduct(last.args.amount_a, last.args.fee_bps, BPS_DENOMINATOR)
        /\ last.event.fee_a + last.event.amount_a = last.args.amount_a
        /\ 0 <= last.event.fee_a
        /\ last.event.fee_a <= last.args.amount_a

\* the largest amount at the largest rate: the whole amount is the fee
C9_Witness ==
    /\ last.op = "fee_and_net" /\ last.err = "OK"
    /\ last.args.amount_a = U64Max /\ last.args.fee_bps = BPS_DENOMINATOR
    /\ last.event.fee_a = U64Max /\ last.event.amount_a = 0

(***************************************************************************)
(* Properties of withdraw_from_position                                    *)
(***************************************************************************)
\* idle + lp + lending of each token before the last instruction
PreTotalA ==
    last.pre.token_a_vault_balance + last.pre.token_a_in_lp + last.pre.token_a_in_lending

PreTotalB ==
    last.pre.token_b_vault_balance + last.pre.token_b_in_lp + last.pre.token_b_in_lending

\* withdraw_X = floor((idle_X + lp_X + lending_X) * p / 100)
WithdrawA == FloorOfProduct(PreTotalA, last.args.percentage, 100)
WithdrawB == FloorOfProduct(PreTotalB, last.args.percentage, 100)

\* C11: for a valid percentage p, withdraw_from_position succeeds (totals
\* within 64 bits) and its WithdrawEvent reports, for each token X,
\* fee_X = floor(withdraw_X * protocol_fee_bps / 10000) and the net amount
\* withdraw_X - fee_X, with withdraw_X = floor((idle_X + lp_X + lending_X) *
\* p / 100) taken from the balances before the instruction; idle_A = 500,
\* lp_A = 300, lending_A = 200 at p = 100 and 0 bps gives net_a = 1000.
C11_WithdrawEvent ==
    (last.op = "withdraw_from_position" /\ last.args.percentage \in 1..100) =>
        /\ (PreTotalA <= U64Max /\ PreTotalB <= U64Max) => last.err = "OK"
        /\ last.err = "OK" =>
              LET bps == last.pre_protocol.protocol_fee_bps
                  fee_a == FloorOfProduct(WithdrawA, bps, 10000)
                  fee_b == FloorOfProduct(WithdrawB, bps, 10000)
              IN  /\ last.event.kind = "WithdrawEvent"
                  /\ last.event.percentage = last.args.percentage
                  /\ last.event.fee_a = fee_a
                  /\ last.event.amount_a = WithdrawA - fee_a
                  /\ last.event.fee_b = fee_b
                  /\ last.event.amount_b = WithdrawB - fee_b
                  /\ ( /\ last.pre.token_a_vault_balance = 500
                       /\ last.pre.token_a_in_lp = 300
                       /\ last.pre.token_a_in_lending = 200
                       /\ last.args.percentage = 100 /\ bps = 0 ) =>
                          last.event.amount_a = 1000

\* the withdrawal of 100 percent of idle 500, lp 300, lending 200 at 0 bps
C11_Witness ==
    /\ last.op = "withdraw_from_position" /\ last.err = "OK"
    /\ last.pre.token_a_vault_balance = 500 /\ last.pre.token_a_in_lp = 300
    /\ last.pre.token_a_in_lending = 200
    /\ last.args.percentage = 100 /\ last.pre_protocol.protocol_fee_bps = 0
    /\ last.event.amount_a = 1000 /\ last.event.fee_a = 0

\* C12: after a successful withdraw_from_position(p) each of the six buckets
\* is floor(old_bucket * (100 - p) / 100), each rounded on its own, and
\* nothing else of the position changes; at p = 100 all six are 0.
C12_BucketsScaled ==
    (last.op = "withdraw_from_position" /\ last.err = "OK") =>
        /\ \A f \in BalanceFields :
              Pos[f] = ((last.pre[f] \div 100) * (100 - last.args.percentage))
                       + (((last.pre[f] % 100) * (100 - last.args.percentage)) \div 100)
        /\ last.args.percentage = 100 => \A f \in BalanceFields : Pos[f] = 0
        /\ \A f \in (DOMAIN Pos) \ BalanceFields : Pos[f] = last.pre[f]

\* 30 percent withdrawn from six nonzero buckets, three of which round down
C12_Witness ==
    /\ last.op = "withdraw_from_position" /\ last.err = "OK"
    /\ last.args.percentage = 30
    /\ last.pre.token_a_vault_balance = 500 /\ Pos.token_a_vault_balance = 350
    /\ last.pre.token_b_vault_balance = 1999 /\ Pos.token_b_vault_balance = 1399
    /\ last.pre.token_b_in_lp = 7 /\ Pos.token_b_in_lp = 4
    /\ last.pre.token_b_in_lending = 1 /\ Pos.token_b_in_lending = 0
    /\ last.pre.token_a_in_lp = 300 /\ last.pre.token_a_in_lending = 200

\* C13: in a successful withdraw_from_position the tokens that leave each
\* vault, to the user plus to the fee recipient, are min(withdraw_X, tokens in
\* the vault at call time), never more than the vault holds; and a vault
\* holding less than withdraw_X does not make the instruction fail.
C13_VaultPayout ==
    (last.op = "withdraw_from_position" /\ last.args.percentage \in 1..100) =>
        /\ last.err = "OK" =>
              /\ last.flows.user_a + last.flows.fee_a
                   = IF WithdrawA < last.pre_tokens.vault_a
                     THEN WithdrawA ELSE last.pre_tokens.vault_a
              /\ last.flows.user_b + last.flows.fee_b
                   = IF WithdrawB < last.pre_tokens.vault_b
                     THEN WithdrawB ELSE last.pre_tokens.vault_b
              /\ last.flows.user_a >= 0 /\ last.flows.fee_a >= 0
              /\ last.flows.user_b >= 0 /\ last.flows.fee_b >= 0
              /\ last.flows.vault_a = 0 - (last.flows.user_a + last.flows.fee_a)
              /\ last.flows.vault_b = 0 - (last.flows.user_b + last.flows.fee_b)
              /\ Tok.vault_a = last.pre_tokens.vault_a + last.flows.vault_a
              /\ Tok.vault_b = last.pre_tokens.vault_b + last.flows.vault_b
              /\ Tok.vault_a >= 0 /\ Tok.vault_b >= 0
        /\ ( /\ PreTotalA <= U64Max /\ PreTotalB <= U64Max
             /\ (last.pre_tokens.vault_a < WithdrawA \/ last.pre_tokens.vault_b < WithdrawB) ) =>
                last.err = "OK"

\* everything withdrawn from a position whose vault holds 500 of the 1000
\* token A it records: the vault pays out 500
C13_Witness ==
    /\ last.op = "withdraw_from_position" /\ last.err = "OK"
    /\ last.args.percentage = 100
    /\ PreTotalA = 1000 /\ last.pre_tokens.vault_a = 500
    /\ last.flows.user_a + last.flows.fee_a = 500
    /\ Tok.vault_a = 0
    /\ last.pre_protocol.protocol_fee_bps = 50

(***************************************************************************)
(* Properties of close_position, under SpecLedger                          *)
(***************************************************************************)
\* C14: close_position on a position with any of its six balances nonzero
\* fails with PositionNotEmpty and leaves the position, the user's counters
\* and the protocol's counter as they were; when it succeeds the six balances
\* were 0, the position no longer exists, and user.position_count and
\* protocol.total_positions are each one less, or 0 if they were 0.
C14_ClosePosition ==
    (last.op = "close_position" /\ last.pre.exists
     /\ last.pre_user.exists /\ last.pre_protocol.exists) =>
        /\ (\E f \in BalanceFields : last.pre[f] # 0) =>
              /\ last.err = "PositionNotEmpty"
              /\ LastPos = last.pre
              /\ users[last.owner] = last.pre_user
              /\ protocol = last.pre_protocol
        /\ last.err = "OK" =>
              /\ \A f \in BalanceFields : last.pre[f] = 0
              /\ ~LastPos.exists
              /\ users[last.owner].position_count
                   = IF last.pre_user.position_count = 0 THEN 0
                     ELSE last.pre_user.position_count - 1
              /\ users[last.owner].total_positions_created
                   = last.pre_user.total_positions_created
              /\ protocol.total_positions
                   = IF last.pre_protocol.total_positions = 0 THEN 0
                     ELSE last.pre_protocol.total_positions - 1
        /\ last.err # "OK" =>
              /\ LastPos = last.pre
              /\ users[last.owner] = last.pre_user
              /\ protocol = last.pre_protocol

\* a close refused for a position whose idle balances are 0 and whose funds
\* are in the lending venue
C14_Witness ==
    /\ last.op = "close_position" /\ last.err = "PositionNotEmpty"
    /\ last.pre.token_a_vault_balance = 0 /\ last.pre.token_b_vault_balance = 0
    /\ last.pre.token_a_in_lending > 0
    /\ LastPos.exists

(***************************************************************************)
(* Properties of the rebalance gate                                        *)
(***************************************************************************)
\* the last instruction's reading passes the oracle checks of rebalance()
ReadingAccepted ==
    /\ last.args.age <= PRICE_MAX_AGE
    /\ normalize_pyth_price(last.args.price, last.args.exponent, USD_DECIMALS).err = "OK"
    /\ normalize_pyth_price(last.args.conf, last.args.exponent, USD_DECIMALS).err = "OK"

\* C15: a rebalance_position call on an unpaused position, with an accepted
\* reading, made fewer than 25 slots after the position's
\* last_rebalance_slot (0 for a position never rebalanced) succeeds with
\* action NoAction and changes no balance, no tracking field and no tokens.
C15_Cooldown ==
    ( /\ last.op = "rebalance_position"
      /\ last.pre.exists /\ ~last.pre.pause_flag /\ ReadingAccepted
      /\ last.pre_slot - last.pre.last_rebalance_slot < 25 ) =>
        /\ last.err = "OK"
        /\ last.event.action = "NoAction"
        /\ Pos = last.pre
        /\ Tok = last.pre_tokens

\* 24 slots after a rebalance that moved funds, with new idle funds and the
\* price now above the range
C15_Witness ==
    /\ last.op = "rebalance_position" /\ last.err = "OK"
    /\ last.event.action = "NoAction"
    /\ last.pre.total_rebalances = 1
    /\ last.pre_slot - last.pre.last_rebalance_slot = 24
    /\ has_idle(last.pre) /\ has_lp(last.pre)
    /\ last.args.price = 250

(***************************************************************************)
(* Properties of the range classification, under SpecClassify              *)
(***************************************************************************)
\* max(price - confidence, 0)
LowerBound ==
    IF last.args.price >= last.args.conf THEN last.args.price - last.args.conf ELSE 0

\* price + confidence, saturating at the largest word
UpperBound ==
    IF last.args.price + last.args.conf <= U64Max
    THEN last.args.price + last.args.conf ELSE U64Max

\* C16: for every price, confidence and range with range_min < range_max,
\* the flags definitely_in_range and definitely_out_of_range are never both
\* true, and exactly one of DefinitelyIn (the first flag), DefinitelyOut (the
\* second flag) and Ambiguous (neither flag) holds and is the branch taken.
C16_ExactlyOneClass ==
    (last.op = "classify" /\ last.args.lp_range_min < last.args.lp_range_max) =>
        /\ ~(last.definitely_in_range /\ last.definitely_out_of_range)
        /\ last.class \in {"DefinitelyIn", "DefinitelyOut", "Ambiguous"}
        /\ (last.class = "DefinitelyIn") = last.definitely_in_range
        /\ (last.class = "DefinitelyOut") = last.definitely_out_of_range
        /\ (last.class = "Ambiguous") =
               (~last.definitely_in_range /\ ~last.definitely_out_of_range)

\* a confidence larger than the price (the lower bound is floored at 0),
\* with the upper bound inside the range
C16_Witness ==
    /\ last.op = "classify"
    /\ last.args.conf > last.args.price
    /\ last.args.lp_range_min > 0
    /\ UpperBound <= last.args.lp_range_max
    /\ last.class = "Ambiguous"

\* C17: the classification is DefinitelyIn exactly when
\* price_lower >= range_min and price_upper <= range_max, and DefinitelyOut
\* exactly when price_upper < range_min or price_lower > range_max; range
\* [100000000, 200000000], price 150000000, confidence 1000000 is DefinitelyIn.
C17_ClassifierFormula ==
    last.op = "classify" =>
        /\ (last.class = "DefinitelyIn") =
               (LowerBound >= last.args.lp_range_min /\ UpperBound <= last.args.lp_range_max)
        /\ (last.class = "DefinitelyOut") =
               (UpperBound < last.args.lp_range_min \/ LowerBound > last.args.lp_range_max)
        /\ ( /\ last.args.lp_range_min = 100000000 /\ last.args.lp_range_max = 200000000
             /\ last.args.price = 150000000 /\ last.args.conf = 1000000 ) =>
               last.class = "DefinitelyIn"

\* an interval that touches a bound of the range and is DefinitelyIn
C17_Witness ==
    /\ last.op = "classify"
    /\ last.class = "DefinitelyIn"
    /\ last.args.lp_range_min = 100000000 /\ last.args.lp_range_max = 200000000
    /\ last.args.conf = 1000000
    /\ UpperBound = last.args.lp_range_max

(***************************************************************************)
(* Properties of the protocol and user accounts, under SpecLedger          *)
(***************************************************************************)
\* C18: the stored protocol_fee_bps is at most 1000 in every state;
\* initialize_protocol with fee_bps > 1000 fails with InvalidPercentage and
\* leaves the protocol account as it was; every instruction other than
\* initialize_protocol leaves the stored fee rate as it was.
C18_FeeRateBounded ==
    /\ protocol.protocol_fee_bps <= 1000
    /\ (last.op = "initialize_protocol" /\ last.args.fee_bps > 1000) =>
          (last.err = "InvalidPercentage" /\ protocol = last.pre_protocol)
    /\ (last.op # "" /\ last.op # "initialize_protocol") =>
          protocol.protocol_fee_bps = last.pre_protocol.protocol_fee_bps

\* fee_bps 1001 is refused while the protocol holds the fee rate 50
C18_Witness ==
    /\ last.op = "initialize_protocol"
    /\ last.args.fee_bps = 1001
    /\ last.err = "InvalidPercentage"
    /\ last.pre_protocol.exists
    /\ protocol.protocol_fee_bps = 50

\* C19: for every user, total_positions_created never decreases, whatever
\* instruction is executed (initialize_user by that user again included).
C19_NeverDecreases ==
    [][\A u \in Users :
          users'[u].total_positions_created >= users[u].total_positions_created]_vars

\* C20: in every state, each user's position_count is the number of that
\* user's positions that exist, and protocol.total_positions is the number
\* of positions that exist over all users.
C20_CountsMatch ==
    /\ \A u \in Users :
          users[u].position_count = Cardinality({i \in PosIds : positions[<<u, i>>].exists})
    /\ protocol.total_positions = Cardinality({k \in PosKeys : positions[k].exists})

\* C21: once the protocol account exists, no instruction changes its
\* fee_recipient or its protocol_fee_bps (a later initialize_protocol
\* included), and total_positions changes only by create_position and
\* close_position.
C21_SetUpOnce ==
    [][protocol.exists =>
          /\ protocol'.fee_recipient = protocol.fee_recipient
          /\ protocol'.protocol_fee_bps = protocol.protocol_fee_bps
          /\ protocol'.total_positions # protocol.total_positions =>
                last'.op \in {"create_position", "close_position"}]_vars

(***************************************************************************)
(* Properties of pause and resume, under Spec                              *)
(***************************************************************************)
\* C22: pause_position on an existing position succeeds and sets pause_flag
\* to TRUE, resume_position succeeds and sets it to FALSE; every other field
\* of the position (balances, range, handles, rebalance tracking) and every
\* token amount is as before, so pausing a paused position or resuming an
\* unpaused one leaves the state as it was.
C22_PauseResume ==
    /\ (last.op = "pause_position" /\ last.pre.exists) =>
          /\ last.err = "OK"
          /\ Pos = [last.pre EXCEPT !.pause_flag = TRUE]
          /\ Tok = last.pre_tokens
          /\ last.pre.pause_flag => Pos = last.pre
    /\ (last.op = "resume_position" /\ last.pre.exists) =>
          /\ last.err = "OK"
          /\ Pos = [last.pre EXCEPT !.pause_flag = FALSE]
          /\ Tok = last.pre_tokens
          /\ ~last.pre.pause_flag => Pos = last.pre

\* pause_position on a position already paused, after a rebalance moved its
\* funds to the LP venue
C22_Witness ==
    /\ last.op = "pause_position" /\ last.err = "OK"
    /\ last.pre.pause_flag
    /\ has_lp(last.pre)
    /\ last.pre.total_rebalances = 1
    /\ last.pre.last_rebalance_price > 0

(***************************************************************************)
(* Properties of the price normalizer, under SpecNormalize                 *)
(***************************************************************************)
\* the decimal digit of weight 10^p of a number in limbs (0 above the limbs)
DigitAt(w, p) ==
    IF p > 20 THEN 0 ELSE (w[3 - (p \div 7)] \div (10 ^ (p % 7))) % 10

\* the digit of weight 10^p of raw * 10^n
DigitShiftedUp(raw, n, p) == IF p < n THEN 0 ELSE DigitAt(raw, p - n)

\* raw * 10^n <= u64::MAX, read off the digits
FitsShiftedUp(raw, n) ==
    ~ \E p \in 0..40 :
          /\ DigitShiftedUp(raw, n, p) > DigitAt(U64MaxWide, p)
          /\ \A q \in (p + 1)..40 : DigitShiftedUp(raw, n, q) = DigitAt(U64MaxWide, q)

\* v = raw * 10^n
ShiftedUp(v, raw, n) ==
    /\ FitsShiftedUp(raw, n)
    /\ \A p \in 0..20 : DigitAt(v, p) = DigitShiftedUp(raw, n, p)

\* v = floor(raw / 10^n)
ShiftedDown(v, raw, n) == \A p \in 0..20 : DigitAt(v, p) = DigitAt(raw, p + n)

\* v is raw rescaled by 10^e: raw * 10^e for e >= 0, floor(raw / 10^(-e)) for e < 0
Rescaled(v, raw, e) ==
    IF e >= 0 THEN ShiftedUp(v, raw, e) ELSE ShiftedDown(v, raw, 0 - e)

NormalizedPositive ==
    /\ last.op = "normalize_pyth_price"
    /\ ~last.args.price.negative /\ last.args.price.magnitude # ZeroWide

\* raw_price = 15000000000, exponent = -8, target_decimals = 6
NormalizeExample ==
    /\ last.op = "normalize_pyth_price"
    /\ last.args.price = [negative |-> FALSE, magnitude |-> <<0, 1500, 0>>]
    /\ last.args.exponent = -8 /\ last.args.target_decimals = 6

\* C23 (amended): the normalizer applied to raw_price = 15000000000,
\* exponent = -8, target_decimals = 6 returns 150000000. For raw_price > 0
\* and a negative exponent, with d = (-exponent) modulo 256 taken as the
\* decimal places of the source and t = target_decimals: when d < t it
\* returns raw_price * 10^(t - d), or fails with MathOverflow when that does
\* not fit 64 bits; when d = t it returns raw_price; when 0 < d - t <= 19 it
\* returns floor(raw_price / 10^(d - t)); when d - t > 19 a build with
\* overflow checks aborts.
C23_Normalize ==
    /\ NormalizeExample => (last.err = "OK" /\ last.value = <<0, 15, 0>>)
    /\ (NormalizedPositive /\ last.args.exponent < 0) =>
          LET raw == last.args.price.magnitude
              d == (0 - last.args.exponent) % 256
              t == last.args.target_decimals
          IN  /\ d < t =>
                    \/ last.err = "OK" /\ ShiftedUp(last.value, raw, t - d)
                    \/ last.err = "MathOverflow" /\ ~FitsShiftedUp(raw, t - d)
              /\ d = t => (last.err = "OK" /\ last.value = raw)
              /\ (d > t /\ d - t <= 19) =>
                    (last.err = "OK" /\ ShiftedDown(last.value, raw, d - t))
              /\ (d > t /\ d - t > 19 /\ last.args.overflow_checks) =>
                    last.err = "Panic"

\* the example has been normalized
C23_Witness == NormalizeExample /\ last.err = "OK"

\* C23 as stated: the example returns 1500000, and for raw_price > 0 and a
\* negative exponent the normalizer returns raw_price rescaled from -exponent
\* decimal places to target_decimals places.
C23_AsStated ==
    /\ NormalizeExample => (last.err = "OK" /\ last.value = <<0, 0, 1500000>>)
    /\ (NormalizedPositive /\ last.args.exponent < 0) =>
          /\ last.err = "OK"
          /\ Rescaled(last.value, last.args.price.magnitude,
                      last.args.target_decimals + last.args.exponent)

\* C24: for every raw_price > 0, every exponent and every target_decimals,
\* the normalizer either returns raw_price * 10^exponent at target_decimals
\* places (truncated) or fails with MathOverflow; it returns no other value
\* and does not abort in another way.
C24_RescaledOrOverflow ==
    NormalizedPositive =>
        \/ /\ last.err = "OK"
           /\ Rescaled(last.value, last.args.price.magnitude,
                       last.args.target_decimals + last.args.exponent)
        \/ last.err = "MathOverflow"

(***************************************************************************)
(* Properties of a rebalance attempt, continued (under Spec)               *)
(***************************************************************************)
\* C25: rebalance_position fails with StalePriceData only when the reading
\* is older than the staleness bound or the oracle price is not positive; a
\* fresh reading with a positive price never fails with StalePriceData,
\* whatever confidence >= 0 it reports, zero included; and a failed attempt
\* leaves the position as it was.
C25_StaleOnly ==
    last.op = "rebalance_position" =>
        /\ last.err = "StalePriceData" =>
              (last.args.age > PRICE_MAX_AGE \/ last.args.price <= 0)
        /\ last.err # "OK" => (Pos = last.pre /\ Tok = last.pre_tokens)

\* the normalized price of the last instruction's reading
LastPrice == normalize_pyth_price(last.args.price, last.args.exponent, USD_DECIMALS).value

\* the normalized confidence of the last instruction's reading
LastConfidence == normalize_pyth_price(last.args.conf, last.args.exponent, USD_DECIMALS).value

\* [price - confidence, price + confidence] lies within the position's range
LastInRange ==
    /\ LastPrice - LastConfidence >= last.pre.lp_range_min
    /\ LastPrice + LastConfidence <= last.pre.lp_range_max

\* [price - confidence, price + confidence] lies outside the position's range
LastOutOfRange ==
    \/ LastPrice + LastConfidence < last.pre.lp_range_min
    \/ LastPrice - LastConfidence > last.pre.lp_range_max

\* |price - last_rebalance_price|
LastChange ==
    IF LastPrice > last.pre.last_rebalance_price
    THEN LastPrice - last.pre.last_rebalance_price
    ELSE last.pre.last_rebalance_price - LastPrice

\* floor(|price - last_rebalance_price| * 10000 / last_rebalance_price) < 100,
\* which is |price - last_rebalance_price| * 100 < last_rebalance_price
LastBelowThreshold == LastChange * 100 < last.pre.last_rebalance_price

\* the cooldown has elapsed since the last rebalance
CooldownElapsed == last.pre_slot - last.pre.last_rebalance_slot >= 25

\* the cooldown has elapsed and the price has moved enough since the last rebalance
ThresholdsPassed ==
    /\ CooldownElapsed
    /\ last.pre.last_rebalance_price # 0 => ~LastBelowThreshold

\* a rebalance_position on an unpaused position with an accepted reading
RebalanceAttempt ==
    /\ last.op = "rebalance_position"
    /\ last.pre.exists /\ ~last.pre.pause_flag /\ ReadingAccepted

\* C26: a rebalance_position that completes past the cooldown and movement
\* thresholds, with the price definitely in range, on a position with
\* lending or idle funds, reports MoveToLP and leaves, for token A and for
\* token B, idle = 0, lending = 0 and lp = old lp + old idle + old lending.
C26_MoveToLP ==
    ( /\ RebalanceAttempt /\ last.err = "OK"
      /\ ThresholdsPassed /\ LastInRange
      /\ (has_lending(last.pre) \/ has_idle(last.pre)) ) =>
        /\ last.event.action = "MoveToLP"
        /\ Pos.token_a_vault_balance = 0 /\ Pos.token_b_vault_balance = 0
        /\ Pos.token_a_in_lending = 0 /\ Pos.token_b_in_lending = 0
        /\ Pos.token_a_in_lp = last.pre.token_a_in_lp + last.pre.token_a_vault_balance
                                  + last.pre.token_a_in_lending
        /\ Pos.token_b_in_lp = last.pre.token_b_in_lp + last.pre.token_b_vault_balance
                                  + last.pre.token_b_in_lending

\* lending funds and new idle funds of both tokens moved to the LP venue
C26_Witness ==
    /\ RebalanceAttempt /\ last.err = "OK"
    /\ ThresholdsPassed /\ LastInRange
    /\ last.pre.token_a_in_lending > 0 /\ last.pre.token_b_in_lending > 0
    /\ last.pre.token_a_vault_balance > 0
    /\ Pos.token_a_in_lp > last.pre.token_a_in_lending

\* C27: a rebalance_position that completes past the cooldown and movement
\* thresholds, with the price definitely out of range, on a position with LP
\* or idle funds, reports MoveToLending and leaves, for token A and for
\* token B, idle = 0, lp = 0 and lending = old lending + old idle + old lp.
C27_MoveToLending ==
    ( /\ RebalanceAttempt /\ last.err = "OK"
      /\ ThresholdsPassed /\ LastOutOfRange
      /\ (has_lp(last.pre) \/ has_idle(last.pre)) ) =>
        /\ last.event.action = "MoveToLending"
        /\ Pos.token_a_vault_balance = 0 /\ Pos.token_b_vault_balance = 0
        /\ Pos.token_a_in_lp = 0 /\ Pos.token_b_in_lp = 0
        /\ Pos.token_a_in_lending = last.pre.token_a_in_lending
                                       + last.pre.token_a_vault_balance
                                       + last.pre.token_a_in_lp
        /\ Pos.token_b_in_lending = last.pre.token_b_in_lending
                                       + last.pre.token_b_vault_balance
                                       + last.pre.token_b_in_lp

\* LP funds and new idle funds of both tokens moved to the lending venue
C27_Witness ==
    /\ RebalanceAttempt /\ last.err = "OK"
    /\ ThresholdsPassed /\ LastOutOfRange
    /\ last.pre.token_a_in_lp > 0 /\ last.pre.token_b_in_lp > 0
    /\ last.pre.token_a_vault_balance > 0
    /\ Pos.token_a_in_lending > last.pre.token_a_in_lp

(***************************************************************************)
(* Properties of the movement threshold, under SpecCooldown                *)
(***************************************************************************)
\* C28 (amended): once the cooldown has elapsed, with last_rebalance_price
\* nonzero and floor(|price - last| * 10000 / last) < 100, a
\* rebalance_position call changes no balance, no tracking field and no
\* tokens, wherever the funds are: it succeeds with NoAction, except that
\* with a definite price and |price - last| * 10000 above the largest word
\* it fails with MathOverflow. With last_rebalance_price = 0 the threshold is
\* not applied: a definite price with idle funds is not answered NoAction.
C28_Threshold ==
    /\ ( /\ RebalanceAttempt /\ CooldownElapsed
          /\ last.pre.last_rebalance_price # 0 /\ LastBelowThreshold ) =>
            /\ Pos = last.pre
            /\ Tok = last.pre_tokens
            /\ IF (LastInRange \/ LastOutOfRange) /\ LastChange > U64Max \div 10000
               THEN last.err = "MathOverflow"
               ELSE last.err = "OK" /\ last.event.action = "NoAction"
    /\ ( /\ RebalanceAttempt /\ CooldownElapsed /\ last.err = "OK"
          /\ last.pre.last_rebalance_price = 0
          /\ (LastInRange \/ LastOutOfRange) /\ has_idle(last.pre) ) =>
            last.event.action # "NoAction"

\* the price 151 after a rebalance at 150, the cooldown over, with LP funds
\* and new idle funds
C28_Witness ==
    /\ RebalanceAttempt /\ CooldownElapsed /\ last.err = "OK"
    /\ last.pre.last_rebalance_price = 150 /\ LastPrice = 151
    /\ has_idle(last.pre) /\ has_lp(last.pre)
    /\ last.event.action = "NoAction"

\* C28 as stated: once the cooldown has elapsed, with last_rebalance_price
\* nonzero and floor(|price - last| * 10000 / last) < 100, a
\* rebalance_position call yields NoAction and changes no balance and no
\* tracking field.
C28_AsStated ==
    ( /\ RebalanceAttempt /\ CooldownElapsed
      /\ last.pre.last_rebalance_price # 0 /\ LastBelowThreshold ) =>
        /\ last.err = "OK" /\ last.event.action = "NoAction"
        /\ Pos = last.pre

(***************************************************************************)
(* Properties of the gate and of the tracking fields, under Spec           *)
(***************************************************************************)
\* a state change is warranted: lending funds with the price in range, LP
\* funds with the price out of range, or idle funds
ChangeWarranted ==
    \/ LastInRange /\ has_lending(last.pre)
    \/ LastOutOfRange /\ has_lp(last.pre)
    \/ has_idle(last.pre)

\* C29: past the cooldown and the movement threshold, with a definite price,
\* a rebalance_position that completes reports NoAction exactly when none of
\* these holds: price in range and lending funds, price out of range and LP
\* funds, idle funds. A never-rebalanced position with idle funds and a
\* definite price is answered MoveToLP in range and MoveToLending out of
\* range, never NoAction.
C29_Gate ==
    /\ ( /\ RebalanceAttempt /\ last.err = "OK"
          /\ ThresholdsPassed /\ (LastInRange \/ LastOutOfRange) ) =>
            (last.event.action # "NoAction" <=> ChangeWarranted)
    /\ ( /\ RebalanceAttempt /\ last.err = "OK" /\ CooldownElapsed
          /\ last.pre.total_rebalances = 0 /\ last.pre.last_rebalance_price = 0
          /\ has_idle(last.pre) ) =>
            /\ LastInRange => last.event.action = "MoveToLP"
            /\ LastOutOfRange => last.event.action = "MoveToLending"

\* the first rebalance of a position holding only idle funds, the price
\* above the range
C29_Witness ==
    /\ RebalanceAttempt /\ last.err = "OK" /\ CooldownElapsed
    /\ last.pre.total_rebalances = 0 /\ last.pre.last_rebalance_price = 0
    /\ has_idle(last.pre) /\ ~has_lp(last.pre) /\ ~has_lending(last.pre)
    /\ LastOutOfRange
    /\ last.event.action = "MoveToLending"

\* C30: a rebalance_position that executes a transition (MoveToLP or
\* MoveToLending) sets last_rebalance_price to the normalized price of its
\* reading and last_rebalance_slot to the slot it runs in, and adds 1 to
\* total_rebalances unless that is the largest word already; one that ends in
\* NoAction, for an ambiguous price or a closed gate, leaves all three.
C30_Tracking ==
    /\ ( /\ last.op = "rebalance_position" /\ last.err = "OK"
          /\ last.event.action \in {"MoveToLP", "MoveToLending"} ) =>
            /\ Pos.last_rebalance_price = LastPrice
            /\ Pos.last_rebalance_slot = last.pre_slot
            /\ Pos.total_rebalances = IF last.pre.total_rebalances = U64Max THEN U64Max
                                       ELSE last.pre.total_rebalances + 1
    /\ ( /\ last.op = "rebalance_position" /\ last.err = "OK"
          /\ last.event.action = "NoAction" ) =>
            /\ Pos.last_rebalance_price = last.pre.last_rebalance_price
            /\ Pos.last_rebalance_slot = last.pre.last_rebalance_slot
            /\ Pos.total_rebalances = last.pre.total_rebalances

\* the second transition of a position, at another price and a later slot
C30_Witness ==
    /\ last.op = "rebalance_position" /\ last.err = "OK"
    /\ last.event.action = "MoveToLP"
    /\ last.pre.total_rebalances = 1 /\ Pos.total_rebalances = 2
    /\ last.pre.last_rebalance_price = 250 /\ Pos.last_rebalance_price = 150
    /\ last.pre.last_rebalance_slot < last.pre_slot
    /\ Pos.last_rebalance_slot = last.pre_slot

(***************************************************************************)
(* Properties of the venue accounts of a rebalance, under Spec             *)
(***************************************************************************)
\* the errors of a venue account that was not supplied
MissingAccountErrors ==
    {"LendingPositionNotFound", "LPPositionNotFound", "ExternalProtocolError"}

\* the errors of a step that fails before the venue is asked for: an
\* arithmetic overflow, a call the other venue or the token program rejects
EarlierFailures == {"MathOverflow", "VenueError"}

\* a rebalance_position past the gate's thresholds with a definite price
PastThresholds ==
    RebalanceAttempt /\ ThresholdsPassed /\ (LastInRange \/ LastOutOfRange)

C32_HandlesOnlyWithFunds ==
    /\ Pos.kamino_obligation => has_lending(Pos)
    /\ Pos.meteora_position => has_lp(Pos)

\* idle_X + lp_X + lending_X of the position is what it was before the
\* last instruction, for both tokens
TotalsUnchanged ==
    /\ Pos.token_a_vault_balance + Pos.token_a_in_lp + Pos.token_a_in_lending
          = last.pre.token_a_vault_balance + last.pre.token_a_in_lp
              + last.pre.token_a_in_lending
    /\ Pos.token_b_vault_balance + Pos.token_b_in_lp + Pos.token_b_in_lending
          = last.pre.token_b_vault_balance + last.pre.token_b_in_lp
              + last.pre.token_b_in_lending

\* C33: a successful withdraw_from_meteora sets lp_A and lp_B to 0 and adds
\* exactly the previous LP amounts to idle_A and idle_B; a successful
\* withdraw_from_kamino does the same from the lending balances; each leaves
\* idle_X + lp_X + lending_X per token and the other venue's balances, and
\* changes nothing when its venue's two balances are 0.
C33_Unwinds ==
    /\ (last.op = "withdraw_from_meteora" /\ last.err = "OK") =>
          /\ Pos.token_a_in_lp = 0 /\ Pos.token_b_in_lp = 0
          /\ Pos.token_a_vault_balance
                = last.pre.token_a_vault_balance + last.pre.token_a_in_lp
          /\ Pos.token_b_vault_balance
                = last.pre.token_b_vault_balance + last.pre.token_b_in_lp
          /\ Pos.token_a_in_lending = last.pre.token_a_in_lending
          /\ Pos.token_b_in_lending = last.pre.token_b_in_lending
          /\ TotalsUnchanged
          /\ ~has_lp(last.pre) => (Pos = last.pre /\ Tok = last.pre_tokens)
    /\ (last.op = "withdraw_from_kamino" /\ last.err = "OK") =>
          /\ Pos.token_a_in_lending = 0 /\ Pos.token_b_in_lending = 0
          /\ Pos.token_a_vault_balance
                = last.pre.token_a_vault_balance + last.pre.token_a_in_lending
          /\ Pos.token_b_vault_balance
                = last.pre.token_b_vault_balance + last.pre.token_b_in_lending
          /\ Pos.token_a_in_lp = last.pre.token_a_in_lp
          /\ Pos.token_b_in_lp = last.pre.token_b_in_lp
          /\ TotalsUnchanged
          /\ ~has_lending(last.pre) => (Pos = last.pre /\ Tok = last.pre_tokens)

\* lending funds of both tokens brought back next to idle funds
C33_Witness ==
    /\ last.op = "withdraw_from_kamino" /\ last.err = "OK"
    /\ last.pre.token_a_in_lending > 0 /\ last.pre.token_b_in_lending > 0
    /\ last.pre.token_a_vault_balance > 0
    /\ Pos.token_a_vault_balance > last.pre.token_a_in_lending

\* C34: in every reachable state, for each token, the idle balance the
\* position records is the number of tokens in the position's vault.
C34_IdleIsVault ==
    /\ Pos.token_a_vault_balance = Tok.vault_a
    /\ Pos.token_b_vault_balance = Tok.vault_b

\* C35: whenever close_position succeeds, no tokens of the position remain
\* in the LP venue or in the lending venue.
C35_NothingLeftDeployed ==
    (last.op = "close_position" /\ last.err = "OK") =>
        /\ Tok.lp_a = 0 /\ Tok.lp_b = 0
        /\ Tok.lend_a = 0 /\ Tok.lend_b = 0

\* C36: in every reachable state the position does not have funds in the
\* LP venue and in the lending venue at once.
C36_OneVenue == ~(has_lp(Pos) /\ has_lending(Pos))

\* lending funds of both tokens and new idle funds, all moved to the LP venue
C36_Witness ==
    /\ last.op = "rebalance_position" /\ last.err = "OK"
    /\ last.pre.token_a_in_lending > 0 /\ last.pre.token_b_in_lending > 0
    /\ has_idle(last.pre)
    /\ has_lp(Pos) /\ ~has_lending(Pos)

(***************************************************************************)
(* Properties of the ledger after a withdrawal, under SpecWithdraw         *)
(***************************************************************************)
PostTotalA == Pos.token_a_vault_balance + Pos.token_a_in_lp + Pos.token_a_in_lending

PostTotalB == Pos.token_b_vault_balance + Pos.token_b_in_lp + Pos.token_b_in_lending

\* C37: after a successful withdraw_from_position, for each token X, the
\* three buckets together with withdraw_X = floor(total_X * p / 100) are at
\* most the three buckets before, and what the separate roundings lose is at
\* most 3 units.
C37_NoFundsCreated ==
    (last.op = "withdraw_from_position" /\ last.err = "OK") =>
        /\ PostTotalA + WithdrawA <= PreTotalA
        /\ PreTotalA - (PostTotalA + WithdrawA) <= 3
        /\ PostTotalB + WithdrawB <= PreTotalB
        /\ PreTotalB - (PostTotalB + WithdrawB) <= 3

\* a partial withdrawal of three nonzero buckets that rounds two units away
C37_Witness ==
    /\ last.op = "withdraw_from_position" /\ last.err = "OK"
    /\ last.args.percentage = 30
    /\ last.pre.token_b_vault_balance = 1999 /\ last.pre.token_b_in_lp = 7
    /\ last.pre.token_b_in_lending = 1
    /\ PreTotalB - (PostTotalB + WithdrawB) = 2

(***************************************************************************)
(* Properties of the tracking fields over all instructions, under Spec     *)
(***************************************************************************)
\* the last instruction changed one of the position's three tracking fields
TrackingChanged ==
    /\ Pos.exists /\ last.pre.exists
    /\ \/ Pos.total_rebalances # last.pre.total_rebalances
       \/ Pos.last_rebalance_price # last.pre.last_rebalance_price
       \/ Pos.last_rebalance_slot # last.pre.last_rebalance_slot

\* C38: total_rebalances, last_rebalance_price and last_rebalance_slot of a
\* position change only in a rebalance_position that reports MoveToLP or
\* MoveToLending and changes some balance, and total_rebalances then grows
\* by one; and a rebalance_position that completes past the gate (thresholds
\* passed, definite price, a change warranted) does not report NoAction.
C38_TrackedOnlyOnMoves ==
    /\ TrackingChanged =>
          /\ last.op = "rebalance_position" /\ last.err = "OK"
          /\ last.event.action \in {"MoveToLP", "MoveToLending"}
          /\ ~BalancesUnchanged
          /\ Tok # last.pre_tokens
          /\ Pos.total_rebalances = last.pre.total_rebalances + 1
    /\ (PastThresholds /\ ChangeWarranted /\ last.err = "OK") =>
          last.event.action # "NoAction"

\* the second counted rebalance of a position: new idle funds to the lending
\* venue
C38_Witness ==
    /\ TrackingChanged
    /\ last.event.action = "MoveToLending"
    /\ last.pre.total_rebalances = 1 /\ Pos.total_rebalances = 2
    /\ has_idle(last.pre) /\ ~has_idle(Pos)

(***************************************************************************)
(* Deployment of idle funds (under SpecCooldown)                           *)
(***************************************************************************)
\* every venue account is supplied and both venues accept their calls
VenuesSupplied ==
    /\ last.args.meteora_accounts /\ last.args.kamino_accounts
    /\ last.args.meteora_cpi_ok /\ last.args.kamino_cpi_ok

\* C39: eventual deployment.  A rebalance_position that completes on an
\* unpaused position with a nonzero idle balance, once the cooldown has
\* elapsed, with a fresh price definitely in range (definitely out of range)
\* and the venue accounts supplied, leaves idle = 0 with the funds in the LP
\* venue (the lending venue), also for funds deposited after an earlier
\* rebalance.  The position and the slot are all the program keeps between
\* calls, so a call that leaves the position as it was is repeated by every
\* later call at the same price: eventual deployment under a steady price is
\* deployment by the call itself.
C39_IdleDeployed ==
    ( /\ RebalanceAttempt /\ last.err = "OK"
      /\ CooldownElapsed /\ VenuesSupplied
      /\ has_idle(last.pre) ) =>
        /\ LastInRange => (~has_idle(Pos) /\ has_lp(Pos))
        /\ LastOutOfRange => (~has_idle(Pos) /\ has_lending(Pos))

(***************************************************************************)
(* The status check against the rebalance classifier (under SpecCooldown)  *)
(***************************************************************************)
\* a check_position_status that completes
StatusReported == last.op = "check_position_status" /\ last.err = "OK"

\* what rebalance() makes of the last instruction's reading
LastClass == classify(LastPrice, LastConfidence, last.pre.lp_range_min, last.pre.lp_range_max)

\* C40: check_position_status never changes the position; the in_range flag
\* it reports is true exactly when lp_range_min <= price <= lp_range_max for
\* the point price; and for a reading the rebalance classifies as
\* DefinitelyIn the flag is true, for one it classifies as DefinitelyOut the
\* flag is false.
C40_StatusAgrees ==
    /\ last.op = "check_position_status" =>
          (Pos = last.pre /\ Tok = last.pre_tokens)
    /\ StatusReported =>
          /\ last.event.current_price = LastPrice
          /\ last.event.in_range <=>
                (last.pre.lp_range_min <= LastPrice /\ LastPrice <= last.pre.lp_range_max)
          /\ (ReadingAccepted /\ LastClass = "DefinitelyIn") => last.event.in_range
          /\ (ReadingAccepted /\ LastClass = "DefinitelyOut") => ~last.event.in_range

\* a status check of a position with funds in the LP venue, on a reading the
\* rebalance classifies as definitely in range
C40_Witness ==
    /\ StatusReported /\ ReadingAccepted
    /\ LastClass = "DefinitelyIn" /\ last.event.in_range
    /\ has_lp(last.pre) /\ last.event.has_lp

============================================================================
